---- MODULE Spec2Model ----
(***************************************************************************)
(* Model of the alpha-terminal API layer: the signals retrieval route (two *)
(* implementations), the scan ingest route (two implementations), the      *)
(* snapshot normaliser, and the store they share.                          *)
(*                                                                         *)
(* One action is one request handled to completion. `req` holds the        *)
(* request that was handled last and `resp` what the handler answered.     *)
(* `arg` and `result` are the argument and the return value of a call of   *)
(* one of the pure functions of the client code. `page` is the state of    *)
(* the review page (teach/page.tsx) in one browser.                        *)
(***************************************************************************)
EXTENDS Integers, Sequences, FiniteSets, TLC

VARIABLES env, files, scan_runs, signals, teach_labels, req, resp, arg, result, page

vars == <<env, files, scan_runs, signals, teach_labels, req, resp, arg, result, page>>

-----------------------------------------------------------------------------
(* Bounds of the model *)

\* scan runs the store may hold (ingest is disabled beyond it)
MaxRuns == 1
\* label records the store may hold (the label write is disabled beyond it)
MaxLabels == 2
\* signals of the short scan runs whose ranking is enumerated in full
ShortRunLen == 3

(* Program constants *)

\* Math.min(..., 1000)
MaxLimit == 1000
\* url.searchParams.get("limit") ?? "200"
DefaultLimit == 200
\* .slice(0, 10) of the candidates
MaxCandidates == 10
\* .limit(300) of the candidates query
CandidateQueryLimit == 300
\* body.entry_reasons.slice(0, 2)
MaxEntryReasons == 2

-----------------------------------------------------------------------------
(* JavaScript values *)

\* an absent property / undefined
Undef == "undefined"
\* searchParams.get / headers.get of something absent
Null == "null"

\* if (x), !x on a string-valued x
Truthy(x) == x # Undef /\ x # Null /\ x # ""

\* a ?? b
Coalesce(a, b) == IF a = Undef \/ a = Null THEN b ELSE a

\* JS numbers: an integer or NaN
Num(n) == [nan |-> FALSE, v |-> n]
NaN == [nan |-> TRUE, v |-> 0]

\* Math.min(a, b): NaN if either is NaN
MathMin(a, b) ==
    IF a.nan \/ b.nan THEN NaN ELSE IF a.v <= b.v THEN a ELSE b

\* Math.max(a, b): NaN if either is NaN
MathMax(a, b) ==
    IF a.nan \/ b.nan THEN NaN ELSE IF a.v >= b.v THEN a ELSE b

\* A query-string value: absent, the decimal text of an integer, or other text.
IntText(n) == [kind |-> "int", n |-> n]
OtherText == [kind |-> "text", n |-> 0]
NoParam == [kind |-> "absent", n |-> 0]

\* Number(url.searchParams.get("limit") ?? "200")
NumberOfLimitParam(p) ==
    CASE p.kind = "absent" -> Num(DefaultLimit)
      [] p.kind = "int" -> Num(p.n)
      [] OTHER -> NaN

\* Array.prototype.slice(0, end)
SliceTo(s, end) ==
    LET e == IF end.nan THEN 0
             ELSE IF end.v < 0 THEN (IF Len(s) + end.v < 0 THEN 0 ELSE Len(s) + end.v)
             ELSE IF end.v > Len(s) THEN Len(s)
             ELSE end.v
    IN SubSeq(s, 1, e)

-----------------------------------------------------------------------------
(* Timestamps: fixed-width ISO-8601 strings, compared as strings *)

TimeStamps == <<"2024-01-01", "2024-01-02", "2024-01-03", "2024-01-04">>

\* position of a string in the collation order of the strings of the model
StrRank(s) ==
    IF \E i \in 1..Len(TimeStamps) : TimeStamps[i] = s
    THEN CHOOSE i \in 1..Len(TimeStamps) : TimeStamps[i] = s
    ELSE 0

\* a.localeCompare(b)
LocaleCompare(a, b) ==
    IF StrRank(a) < StrRank(b) THEN -1 ELSE IF StrRank(a) > StrRank(b) THEN 1 ELSE 0

\* new Date().toISOString() at the time of the requests of the model
NowIso == TimeStamps[4]

-----------------------------------------------------------------------------
(* The normaliser: Card -> Signal *)

\* an optional number: <<>> when the property is absent or null, else <<n>>
NoNum == <<>>
Some(n) == <<n>>

\* a JSON value that may be a number or a string: <<"undef">>, <<"null">>,
\* <<"num", n>>, <<"str", s>>; <<"nan">> is the number NaN and <<"half", n>>
\* the number n/2 for odd n
JsUndef == <<"undef">>
JsNull == <<"null">>
JsNum(n) == <<"num", n>>
JsStr(str) == <<"str", str>>
JsNaN == <<"nan">>
JsHalf(n) == <<"half", n>>

\* typeof v === "number"
IsNumber(v) == v[1] \in {"num", "nan", "half"}

\* decimal texts of the model
NumberOfText(str) ==
    CASE str = "" -> JsNum(0)
      [] str = "9" -> JsNum(9)
      [] str = "90" -> JsNum(90)
      [] str = "110" -> JsNum(110)
      [] OTHER -> JsNaN

\* Number(v)
ToNumber(v) ==
    CASE v[1] \in {"num", "half"} -> v
      [] v[1] = "str" -> NumberOfText(v[2])
      [] v[1] = "null" -> JsNum(0)
      [] OTHER -> JsNaN

\* v ?? d on JSON values
JsCoalesce(v, d) == IF v = JsUndef \/ v = JsNull THEN d ELSE v

\* an optional object or array: <<>> when the property is absent, else <<x>>
Absent == <<>>
Present(x) == <<x>>

\* a JSON value that is an object
JsObj(o) == <<"obj", o>>

\* falsy values: !v
Falsy(v) == v \in {JsUndef, JsNull, JsNum(0), JsNaN, JsStr("")}

\* an entry object; a key that is absent is Undef, JsUndef or Absent
EntryObj(type, trigger, zone, why, price) ==
    [type |-> type, trigger |-> trigger, zone |-> zone, why |-> why, price |-> price,
     ai |-> Absent]

\* {}
EmptyEntry == EntryObj(Undef, JsUndef, Absent, Absent, JsUndef)

\* the keys an AI sub-object and a signal share
AiFields == {"probability", "confidence", "why", "chosen_stop", "stop_ladder"}

\* entry.ai
AiObj(probability, confidence, why, chosen_stop, stop_ladder) ==
    [probability |-> probability, confidence |-> confidence, why |-> why,
     chosen_stop |-> chosen_stop, stop_ladder |-> stop_ladder]

\* A card: labels is the array (empty when absent); label, as_of and
\* created_at are pass-through keys ([k: string]: any), Undef when absent;
\* entry_type, trigger, zone and why are plan.entry's, plan_stop is
\* plan.exit_if_wrong.stop, plan_targets the prices of plan.targets;
\* plan_type, entry, stop and targets are pass-through keys again.
Card(ticker, labels, label, as_of, created_at) ==
    [ticker |-> ticker, labels |-> labels, label |-> label,
     as_of |-> as_of, created_at |-> created_at,
     price |-> JsNum(100),
     entry_type |-> "breakout_confirmation", trigger |-> JsNum(101), zone |-> Absent,
     why |-> Absent, plan_stop |-> JsNum(90), plan_targets |-> Present(<<JsNum(110)>>),
     plan_type |-> Undef, entry |-> Absent, stop |-> Absent, targets |-> Absent,
     vol_z |-> NoNum, rs_vs_spy |-> NoNum, rs_60d_vs_spy |-> Some(1)]

\* own-property spread: {..., k: computed, ...card}: the card's key wins when it has one
SpreadOver(computed, own) == IF own = Undef THEN computed ELSE own

\* the same for a key that holds an object or an array
SpreadOverObj(computed, own) == IF own = Absent THEN computed ELSE own[1]

\* the fields cardToSignal computes, before the card is spread over them
\* (lines 95-126)
ComputedFields(card, as_of, defaultLabel) ==
    LET label == IF Len(card.labels) > 0 THEN card.labels[1] ELSE defaultLabel
        entry == IF card.entry_type = "breakout_confirmation"
                 THEN EntryObj("breakout_confirmation", card.trigger, Absent, card.why, JsUndef)
                 ELSE IF card.entry_type = "value_zone"
                 THEN EntryObj("value_zone", JsUndef, card.zone, card.why, JsUndef)
                 ELSE EntryObj(Undef, JsUndef, Absent, Absent, card.price)
        stopPrice == IF IsNumber(card.plan_stop) THEN card.plan_stop
                     ELSE IF card.stop = Absent THEN JsUndef
                     ELSE card.stop[1].price
        targets == IF card.plan_targets # Absent
                   THEN [i \in 1..Len(card.plan_targets[1]) |->
                            [price |-> ToNumber(card.plan_targets[1][i])]]
                   ELSE IF card.targets # Absent THEN card.targets[1]
                   ELSE <<>>
    IN [as_of |-> as_of,
        ticker |-> card.ticker,
        label |-> label,
        plan_type |-> Coalesce(card.entry_type, "unknown"),
        entry |-> entry,
        stop |-> [price |-> ToNumber(JsCoalesce(stopPrice, JsNum(0)))],
        targets |-> targets,
        vol_z |-> card.vol_z,
        rs_vs_spy |-> IF card.rs_vs_spy # NoNum THEN card.rs_vs_spy ELSE card.rs_60d_vs_spy]

\* {...computed, ...card}: learned_top_rules and the other keys of the card
\* that no route reads are left out
cardToSignal(card, as_of, defaultLabel) ==
    LET computed == ComputedFields(card, as_of, defaultLabel)
    IN [ticker |-> card.ticker,
        label |-> SpreadOver(computed.label, card.label),
        as_of |-> SpreadOver(computed.as_of, card.as_of),
        created_at |-> card.created_at,
        plan_type |-> SpreadOver(computed.plan_type, card.plan_type),
        entry |-> SpreadOverObj(computed.entry, card.entry),
        stop |-> SpreadOverObj(computed.stop, card.stop),
        targets |-> SpreadOverObj(computed.targets, card.targets),
        vol_z |-> computed.vol_z,
        rs_vs_spy |-> computed.rs_vs_spy,
        id |-> Undef,
        scan_run_id |-> Undef]

cardsFileToSignals(file, defaultLabel) ==
    LET as_of == Coalesce(file.as_of, NowIso)
    IN [i \in 1..Len(file.cards) |-> cardToSignal(file.cards[i], as_of, defaultLabel)]

-----------------------------------------------------------------------------
(* Snapshot files *)

\* a snapshot file on disk: exists = FALSE is a missing or unparsable file
SnapFile(exists, as_of, cards) == [exists |-> exists, as_of |-> as_of, cards |-> cards]
MissingFile == SnapFile(FALSE, Undef, <<>>)

ReadyFiles ==
    { MissingFile,
      SnapFile(TRUE, TimeStamps[1],
               <<Card("AAA", <<"READY_CONFIRMED">>, Undef, Undef, Undef),
                 Card("AAB", <<>>, Undef, Undef, TimeStamps[3])>>) }

EarlyFiles ==
    { MissingFile,
      SnapFile(TRUE, TimeStamps[2],
               <<Card("BBB", <<"EARLY_BREAKOUT">>, Undef, Undef, Undef),
                 Card("BBC", <<>>, "WATCH", Undef, Undef)>>) }

WatchFiles ==
    { MissingFile,
      SnapFile(TRUE, Undef,
               <<Card("CCC", <<>>, Undef, Undef, Undef)>>) }

-----------------------------------------------------------------------------
(* The comparators of the code *)

\* the sort key of signals/route.ts: String(s.created_at ?? s.as_of ?? "")
SortKey(s) == Coalesce(Coalesce(s.created_at, s.as_of), "")

\* (a, b) => key(b).localeCompare(key(a))
ByTimeDesc(a, b) == LocaleCompare(SortKey(b), SortKey(a))

\* String(lbl).includes("EARLY"), over the labels of the model
IncludesEarly(lbl) == lbl \in {"EARLY", "EARLY_BREAKOUT"}

labelRank(lbl) ==
    IF lbl = "READY_CONFIRMED" THEN 0
    ELSE IF IncludesEarly(lbl) THEN 1
    ELSE IF lbl = "WATCH" THEN 2
    ELSE 3

\* Number(x ?? 0)
NumberOrZero(x) == IF x = NoNum THEN 0 ELSE x[1]

\* the comparator of the candidates sort
CandidateOrder(a, b) ==
    LET la == labelRank(a.label)
        lb == labelRank(b.label)
        rsA == NumberOrZero(a.rs_vs_spy)
        rsB == NumberOrZero(b.rs_vs_spy)
        vzA == NumberOrZero(a.vol_z)
        vzB == NumberOrZero(b.vol_z)
    IN IF la # lb THEN la - lb
       ELSE IF rsA # rsB THEN rsB - rsA
       ELSE vzB - vzA

\* (a, b) => b.as_of compared with a.as_of: .order("as_of", {ascending: false})
ByAsOfDesc(a, b) == LocaleCompare(Coalesce(b.as_of, ""), Coalesce(a.as_of, ""))

\* the comparator named cmp, applied
Compare(cmp, a, b) ==
    CASE cmp = "time desc" -> ByTimeDesc(a, b)
      [] cmp = "as_of desc" -> ByAsOfDesc(a, b)
      [] cmp = "candidates" -> CandidateOrder(a, b)

-----------------------------------------------------------------------------
(* Array.prototype.sort is stable: insertion by the comparator *)

RECURSIVE InsertBy(_, _, _)
InsertBy(cmp, sorted, x) ==
    IF sorted = <<>> THEN <<x>>
    ELSE LET last == sorted[Len(sorted)]
         IN IF Compare(cmp, last, x) <= 0
            THEN Append(sorted, x)
            ELSE Append(InsertBy(cmp, SubSeq(sorted, 1, Len(sorted) - 1), x), last)

\* array.sort(cmp)
RECURSIVE SortBy(_, _)
SortBy(cmp, s) ==
    IF s = <<>> THEN <<>>
    ELSE InsertBy(cmp, SortBy(cmp, SubSeq(s, 1, Len(s) - 1)), s[Len(s)])

SortByTimeDesc(s) == SortBy("time desc", s)

-----------------------------------------------------------------------------
(* fallbackSignals *)

\* the outcome of an async call: a value, or a rejection
Returned(v) == [threw |-> FALSE, value |-> v]
Threw == [threw |-> TRUE, value |-> <<>>]

\* the reads of fallbackSignals, in the order they are started: three awaited
\* tryRead calls (signals/route.ts:65-67), one Promise.all (part_002:37-41)
SnapshotReads == <<"read ready.json", "read early.json", "read watch.json">>

\* what the primary tier did: the query is sent and awaited, or the client
\* could not be made (getSupabase throws, supabaseIfConfigured returns null)
PrimaryEvents(configured, unconfigured, error) ==
    IF ~configured THEN <<unconfigured>>
    ELSE IF error # Null THEN <<"query", "primary error">>
    ELSE <<"query", "primary ok">>

TierEvents_prefetch(primary, reads) == reads \o primary

\* fallbackSignals() is called, and awaited, in the error branch and in the
\* catch (or else) branch only: after the primary tier's outcome is known
TierEvents(primary, reads) ==
    IF primary[Len(primary)] = "primary ok" THEN primary ELSE primary \o reads

\* signals/route.ts: tryRead swallows a failed read, then sort by time desc
fallbackSignalsA(fs) ==
    LET ready == IF fs.ready.exists THEN cardsFileToSignals(fs.ready, "READY_CONFIRMED") ELSE <<>>
        early == IF fs.early.exists THEN cardsFileToSignals(fs.early, "EARLY") ELSE <<>>
        watch == IF fs.watch.exists THEN cardsFileToSignals(fs.watch, "WATCH") ELSE <<>>
    IN Returned(SortByTimeDesc(ready \o early \o watch))

\* (low + high) / 2 of two numbers
Midpoint(low, high) ==
    IF low[1] # "num" \/ high[1] # "num" THEN JsNaN
    ELSE IF (low[2] + high[2]) % 2 = 0 THEN JsNum((low[2] + high[2]) \div 2)
    ELSE JsHalf(low[2] + high[2])

\* the second implementation's normalizeEntry (part_002:11-21): an absent
\* entry becomes {price: null}, a bare number the price; on an object a numeric
\* price is kept, else the trigger or the midpoint of the zone becomes the price
normalizeEntryB(entry) ==
    IF Falsy(entry) THEN EntryObj(Undef, JsUndef, Absent, Absent, JsNull)
    ELSE IF IsNumber(entry) THEN EntryObj(Undef, JsUndef, Absent, Absent, entry)
    ELSE LET o == entry[2]
         IN IF IsNumber(o.price) THEN o
            ELSE IF IsNumber(o.trigger) THEN [o EXCEPT !.price = o.trigger]
            ELSE IF o.zone # Absent /\ IsNumber(o.zone[1].low) /\ IsNumber(o.zone[1].high)
            THEN [o EXCEPT !.price = Midpoint(o.zone[1].low, o.zone[1].high)]
            ELSE o

\* Number(v) of a key that is present
CoerceIfPresent(v) == IF v = JsUndef THEN JsUndef ELSE ToNumber(v)

normalizeEntryA_nullPrice(entry) ==
    IF Falsy(entry) THEN EntryObj(Undef, JsUndef, Absent, Absent, JsNull)
    ELSE IF IsNumber(entry) THEN EmptyEntry
    ELSE LET o == entry[2]
         IN [o EXCEPT !.trigger = CoerceIfPresent(o.trigger),
                      !.zone = IF o.zone = Absent THEN Absent
                               ELSE Present([low |-> CoerceIfPresent(o.zone[1].low),
                                             high |-> CoerceIfPresent(o.zone[1].high)]),
                      !.price = CoerceIfPresent(o.price)]

\* signals/route.ts normalizeEntry (lines 18-30): an absent entry becomes {},
\* and so does a bare number ({...n}); on an object the trigger, the zone
\* bounds and the price that are present are coerced with Number()
normalizeEntryA(entry) ==
    IF Falsy(entry) THEN EmptyEntry
    ELSE IF IsNumber(entry) THEN EmptyEntry
    ELSE LET o == entry[2]
         IN [o EXCEPT !.trigger = CoerceIfPresent(o.trigger),
                      !.zone = IF o.zone = Absent THEN Absent
                               ELSE Present([low |-> CoerceIfPresent(o.zone[1].low),
                                             high |-> CoerceIfPresent(o.zone[1].high)]),
                      !.price = CoerceIfPresent(o.price)]

\* a stop object: {price, stop, stop_price}
StopObj(price, stop, stop_price) == [price |-> price, stop |-> stop, stop_price |-> stop_price]

\* signals/route.ts normalizeStop (lines 32-37)
normalizeStop(stop) ==
    IF Falsy(stop) THEN StopObj(JsNum(0), JsUndef, JsUndef)
    ELSE IF IsNumber(stop) THEN StopObj(stop, JsUndef, JsUndef)
    ELSE LET o == stop[2]
             price == JsCoalesce(o.price, JsCoalesce(o.stop, JsCoalesce(o.stop_price, JsNum(0))))
         IN [o EXCEPT !.price = ToNumber(price)]

\* signals/route.ts extractAi (lines 39-50): entry.ai with every key ?? null,
\* Absent (null) when the entry has none
extractAi(entry) ==
    IF entry.ai = Absent THEN Absent
    ELSE Present([k \in AiFields |-> JsCoalesce(entry.ai[1][k], JsNull)])

\* the map over the rows of the primary tier (signals/route.ts:96-110)
NormalizeRowA(s) ==
    LET entry == normalizeEntryA(s.entry)
        ai == extractAi(entry)
        Pick(k) == JsCoalesce(JsCoalesce(IF ai = Absent THEN JsUndef ELSE ai[1][k], s[k]),
                              JsNull)
    IN [s EXCEPT !.entry = entry,
                 !.stop = normalizeStop(s.stop),
                 !.targets = IF s.targets = Absent THEN <<>> ELSE s.targets[1],
                 !.probability = Pick("probability"),
                 !.confidence = Pick("confidence"),
                 !.why = Pick("why"),
                 !.chosen_stop = Pick("chosen_stop"),
                 !.stop_ladder = Pick("stop_ladder")]

\* the map over the rows of the primary tier, second implementation (part_002:74)
NormalizeRowB(s) == [s EXCEPT !.entry = normalizeEntryB(s.entry)]

\* the second implementation: Promise.all of three reads, no catch, no sort;
\* every signal's entry goes through normalizeEntry
fallbackSignalsB(fs) ==
    IF fs.ready.exists /\ fs.early.exists /\ fs.watch.exists
    THEN LET all == cardsFileToSignals(fs.ready, "READY_CONFIRMED")
                    \o cardsFileToSignals(fs.early, "EARLY")
                    \o cardsFileToSignals(fs.watch, "WATCH")
         IN Returned([i \in 1..Len(all) |->
                         [all[i] EXCEPT !.entry = normalizeEntryB(JsObj(all[i].entry))]])
    ELSE Threw

-----------------------------------------------------------------------------
(* The store (Supabase): tables scan_runs and signals *)

\* ids the store hands out (uuid defaults), in order of creation
RunIds == <<"run-1", "run-2", "run-3", "run-4">>
SignalIds == <<"sig-1", "sig-2", "sig-3", "sig-4", "sig-5", "sig-6", "sig-7", "sig-8">>

\* .eq("label", label)
WhereLabel(rows, label) == SelectSeq(rows, LAMBDA r : r.label = label)

\* supabase.from("signals").select("*").order("created_at", desc).limit(n) [.eq("label", l)]
\* The store is unreachable or the table is missing when ~up; a limit that is
\* not a non-negative integer is refused by the store. Both give {data: null, error}.
SelectSignals(rows, limit, label, up) ==
    IF ~up \/ limit.nan \/ limit.v < 0
    THEN [error |-> "db error", data |-> <<>>]
    ELSE LET matching == IF Truthy(label) THEN WhereLabel(rows, label) ELSE rows
             ordered == SortByTimeDesc(matching)
         IN [error |-> Null,
             data |-> SubSeq(ordered, 1, IF limit.v < Len(ordered) THEN limit.v ELSE Len(ordered))]

-----------------------------------------------------------------------------
(* Requests and responses *)

NoHeader == [present |-> FALSE, prefix |-> "", cred |-> ""]
Header(prefix, cred) == [present |-> TRUE, prefix |-> prefix, cred |-> cred]

\* A request body. parses = FALSE: req.json() rejects. has_scan_runs and run_as_of
\* are the nested shape {scan_runs: {as_of}, signals}; as_of and source the
\* flattened one {as_of, source, signals}. is_array = FALSE: signals is absent
\* or not an array.
Payload(parses, has_scan_runs, run_as_of, as_of, source, is_array, sigs) ==
    [parses |-> parses, has_scan_runs |-> has_scan_runs, run_as_of |-> run_as_of,
     as_of |-> as_of, source |-> source, is_array |-> is_array, signals |-> sigs]

NoPayload == Payload(FALSE, FALSE, Undef, Undef, Undef, FALSE, <<>>)

\* The body of a label write. parses = FALSE: req.json() rejects.
\* reasons_is_array = FALSE: entry_reasons is absent or is not an array.
LabelBody(parses, ticker, mode, confidence, entry_reasons) ==
    [parses |-> parses, ticker |-> ticker, mode |-> mode, idea_source |-> "scanner",
     timeframe |-> "swing", exit_intent |-> "trailing_stop", confidence |-> confidence,
     reasons_is_array |-> TRUE, entry_reasons |-> entry_reasons, notes |-> Null,
     scan_run_id |-> Null, signal_id |-> Null]

NoBody == LabelBody(FALSE, Undef, Undef, JsUndef, <<>>)

NoRequest == [op |-> "none", impl |-> "", limit |-> NoParam, label |-> Null, up |-> TRUE,
              xtoken |-> Null, auth |-> NoHeader, payload |-> NoPayload,
              body |-> NoBody, store |-> "ok"]

\* what the handler answered: kind "json" is a NextResponse.json, kind
\* "unhandled" is an exception that left the handler; events is what the
\* handler did to the store and the file system, in the order it did it
NoResponse == [kind |-> "none", status |-> 0, source |-> Undef, signals |-> <<>>,
               primary |-> "none", queried |-> FALSE, queryLimit |-> NaN,
               error |-> Undef, ok |-> FALSE, scan_run_id |-> Undef, inserted |-> NoNum,
               as_of |-> Undef, candidates |-> <<>>, id |-> Undef, events |-> <<>>]

Unhandled == [NoResponse EXCEPT !.kind = "unhandled"]

\* NextResponse.json(body) / NextResponse.json(body, {status})
Json(status) == [NoResponse EXCEPT !.kind = "json", !.status = status]

\* no pure function is being called
NoCall == [fn |-> "none"]

\* the review page as it is mounted (teach/page.tsx:39-55): no token, nothing
\* loaded, the cursor on 0, no save under way; calls are the requests the page
\* has sent and whose continuation has not run yet
FreshPage ==
    [token |-> "", loaded |-> FALSE, as_of |-> Null, candidates |-> <<>>, idx |-> 0,
     saving |-> FALSE, calls |-> <<>>]

\* Handlers are request-scoped: a request is taken when none is being answered
Idle == req.op = "none"

\* the response (or the exception) leaves the handler; nothing of the request
\* outlives it but what it wrote to the store
Deliver ==
    /\ ~Idle
    /\ req' = NoRequest
    /\ resp' = NoResponse
    /\ UNCHANGED <<page, arg, result, env, files, scan_runs, signals, teach_labels>>

-----------------------------------------------------------------------------
(* GET signals *)

LimitParams == {NoParam, IntText(0), IntText(-1), IntText(1), IntText(5000), OtherText}
LabelParams == {Null, "", "WATCH", "EARLY_BREAKOUT"}

SignalsRequest(impl, lp, lb, up) ==
    [NoRequest EXCEPT !.op = "signals", !.impl = impl, !.limit = lp, !.label = lb, !.up = up]

\* list?.[0]?.created_at ?? list?.[0]?.as_of ?? null
FirstTime(list) ==
    IF list = <<>> THEN Null ELSE Coalesce(Coalesce(list[1].created_at, list[1].as_of), Null)

\* normalized?.[0]?.created_at ?? null
FirstCreatedAt(list) ==
    IF list = <<>> THEN Null ELSE Coalesce(list[1].created_at, Null)

\* signals/route.ts GET
GetSignalsA ==
    \E lp \in LimitParams, lb \in LabelParams, up \in BOOLEAN :
        LET limit == MathMin(NumberOfLimitParam(lp), Num(MaxLimit))
            q == SelectSignals(signals, limit, lb, up)
            normalized == [i \in 1..Len(q.data) |-> NormalizeRowA(q.data[i])]
            fb == fallbackSignalsA(files).value
            filtered == IF Truthy(lb) THEN WhereLabel(fb, lb) ELSE fb
            sliced == SliceTo(filtered, MathMin(Num(Len(filtered)), limit))
            events == TierEvents(PrimaryEvents(env.supabase, "primary threw", q.error),
                                 SnapshotReads)
        IN /\ Idle
           /\ req' = SignalsRequest("A", lp, lb, up)
           /\ resp' = [(
                IF ~env.supabase
                THEN \* getSupabase() throws: the catch block
                     [Json(200) EXCEPT !.source = "fallback", !.signals = sliced,
                                       !.as_of = FirstTime(sliced),
                                       !.primary = "threw", !.error = "Missing SUPABASE_URL"]
                ELSE IF q.error # Null
                THEN [Json(200) EXCEPT !.source = "fallback_after_db_error", !.signals = fb,
                                       !.as_of = FirstTime(fb),
                                       !.primary = "error", !.queried = TRUE,
                                       !.queryLimit = limit, !.error = q.error]
                ELSE [Json(200) EXCEPT !.source = "supabase", !.signals = normalized,
                                       !.as_of = FirstCreatedAt(normalized),
                                       !.primary = "ok", !.queried = TRUE,
                                       !.queryLimit = limit]
                ) EXCEPT !.events = events]
           /\ UNCHANGED <<page, arg, result, env, files, scan_runs, signals, teach_labels>>

\* the second implementation of GET signals
GetSignalsB ==
    \E lp \in LimitParams, lb \in LabelParams, up \in BOOLEAN :
        LET limit == NumberOfLimitParam(lp)
            qlimit == MathMin(MathMax(limit, Num(1)), Num(MaxLimit))
            q == SelectSignals(signals, qlimit, lb, up)
            normalized == [i \in 1..Len(q.data) |-> NormalizeRowB(q.data[i])]
            fbr == fallbackSignalsB(files)
            fb == fbr.value
            filtered == IF Truthy(lb) THEN WhereLabel(fb, lb) ELSE fb
            sliced == SliceTo(filtered, MathMin(Num(Len(filtered)), limit))
            events == TierEvents(PrimaryEvents(env.supabase, "primary unavailable", q.error),
                                 SnapshotReads)
        IN /\ Idle
           /\ req' = SignalsRequest("B", lp, lb, up)
           /\ resp' = [(
                IF env.supabase
                THEN IF q.error # Null
                     THEN IF fbr.threw
                          THEN [Unhandled EXCEPT !.primary = "error", !.queried = TRUE,
                                                 !.queryLimit = qlimit]
                          ELSE [Json(200) EXCEPT !.source = "fallback_after_db_error",
                                                 !.signals = fb, !.primary = "error",
                                                 !.queried = TRUE, !.queryLimit = qlimit,
                                                 !.error = q.error]
                     ELSE [Json(200) EXCEPT !.source = "supabase", !.signals = normalized,
                                            !.primary = "ok", !.queried = TRUE,
                                            !.queryLimit = qlimit]
                ELSE IF fbr.threw
                     THEN [Unhandled EXCEPT !.primary = "threw"]
                     ELSE [Json(200) EXCEPT !.source = "fallback", !.signals = sliced,
                                            !.primary = "threw"]
                ) EXCEPT !.events = events]
           /\ UNCHANGED <<page, arg, result, env, files, scan_runs, signals, teach_labels>>

-----------------------------------------------------------------------------
(* POST ingest-scan *)

\* the value the deployment sets INGEST_TOKEN to, and another token
IngestSecret == "s3cret"
\* the value the deployment sets TEACH_TOKEN to
TeachSecret == "t0ken"

\* a signal of a payload; scan_run_id is Undef unless the payload carries one.
\* entry and stop are JSON values, targets is Absent unless it is an array.
PayloadSignal(ticker, label, scan_run_id) ==
    [ticker |-> ticker, label |-> label, as_of |-> Undef, created_at |-> Undef,
     plan_type |-> "value_zone", vol_z |-> Some(2), rs_vs_spy |-> NoNum,
     id |-> Undef, scan_run_id |-> scan_run_id,
     entry |-> JsObj(EntryObj("value_zone", JsUndef,
                              Present([low |-> JsNum(95), high |-> JsNum(98)]),
                              Absent, JsUndef)),
     stop |-> JsObj(StopObj(JsNum(90), JsUndef, JsUndef)),
     targets |-> Present(<<[price |-> JsNum(110)]>>),
     probability |-> JsUndef, confidence |-> JsUndef, why |-> JsUndef,
     chosen_stop |-> JsUndef, stop_ladder |-> JsUndef]

Payloads ==
    { NoPayload,
      Payload(TRUE, TRUE, TimeStamps[1], TimeStamps[1], Undef, FALSE, <<>>),
      Payload(TRUE, TRUE, TimeStamps[1], Undef, Undef, TRUE,
              <<PayloadSignal("AAA", "WATCH", Undef)>>),
      Payload(TRUE, FALSE, Undef, TimeStamps[2], "scanner", TRUE,
              <<PayloadSignal("BBB", "EARLY_BREAKOUT", Undef)>>),
      Payload(TRUE, TRUE, NowIso, NowIso, Undef, TRUE,
              <<PayloadSignal("AAA", "READY_CONFIRMED", Undef),
                PayloadSignal("CCC", "WATCH", "run-0")>>) }

\* the headers of a request: <<x-ingest-token, authorization>>
IngestHeaders ==
    { <<Null, NoHeader>>,
      <<IngestSecret, NoHeader>>,
      <<Null, Header("Bearer ", IngestSecret)>>,
      <<Null, Header("bearer ", IngestSecret)>>,
      <<Null, Header("Bearer ", TeachSecret)>>,
      <<TeachSecret, Header("Bearer ", IngestSecret)>> }

\* what the store does with the two inserts of one ingest
StoreOutcomes == {"ok", "scan_runs fails", "signals fails"}

\* header.replace(/^Bearer\s+/i, "")
StripBearerAnyCase(h) ==
    IF h.prefix \in {"Bearer ", "bearer "} THEN h.cred ELSE h.prefix \o h.cred

\* header.replace("Bearer ", "")
StripBearer(h) ==
    IF h.prefix = "Bearer " THEN h.cred ELSE h.prefix \o h.cred

\* assertAuth of ingest-scan/route.ts (first implementation): TRUE when it returns,
\* FALSE when it throws "Unauthorized ingest"
assertAuth(xtoken, auth) ==
    LET want == env.INGEST_TOKEN
        got == IF xtoken # Null THEN xtoken
               ELSE IF auth.present THEN StripBearerAnyCase(auth)
               ELSE ""
    IN IF ~Truthy(want) THEN TRUE ELSE got = want

\* signals.map((s) => ({ scan_run_id: scanRun.id, ...s })), then the store's
\* defaults for id and created_at
IngestRows(sigs, runId, firstId, now) ==
    [i \in 1..Len(sigs) |->
        [sigs[i] EXCEPT !.scan_run_id = SpreadOver(runId, sigs[i].scan_run_id),
                        !.id = SignalIds[firstId + i - 1],
                        !.created_at = Coalesce(sigs[i].created_at, now)]]

IngestRequest(impl, h, p, store) ==
    [NoRequest EXCEPT !.op = "ingest", !.impl = impl, !.xtoken = h[1], !.auth = h[2],
                      !.payload = p, !.store = store]

\* the id and clock the store gives the next scan run
NextRunId == RunIds[Len(scan_runs) + 1]
StoreNow == TimeStamps[Len(scan_runs) + 1]

\* ingest-scan/route.ts POST, first implementation (lines 23-53)
IngestV1 ==
    \E h \in IngestHeaders, p \in Payloads, store \in StoreOutcomes :
        LET x == h[1]
            a == h[2]
            run == [id |-> NextRunId, as_of |-> p.run_as_of, source |-> p.source]
            rows == IngestRows(p.signals, NextRunId, Len(signals) + 1, StoreNow)
        IN /\ Idle
           /\ Len(scan_runs) < MaxRuns
           /\ req' = IngestRequest("v1", h, p, store)
           /\ IF ~assertAuth(x, a)
              THEN /\ resp' = [Json(401) EXCEPT !.error = "Unauthorized ingest"]
                   /\ UNCHANGED <<scan_runs, signals>>
              ELSE IF ~env.supabase
              THEN \* getSupabase() throws inside the try
                   /\ resp' = [Json(401) EXCEPT !.error = "Missing SUPABASE_URL"]
                   /\ UNCHANGED <<scan_runs, signals>>
              ELSE IF ~p.parses
              THEN \* req.json() rejects inside the try
                   /\ resp' = [Json(401) EXCEPT !.error = "Unexpected token"]
                   /\ UNCHANGED <<scan_runs, signals>>
              ELSE IF ~p.has_scan_runs \/ ~p.is_array
              THEN /\ resp' = [Json(400) EXCEPT !.error = "Invalid payload"]
                   /\ UNCHANGED <<scan_runs, signals>>
              ELSE IF store = "scan_runs fails"
              THEN /\ resp' = [Json(500) EXCEPT !.error = "db error"]
                   /\ UNCHANGED <<scan_runs, signals>>
              ELSE IF store = "signals fails"
              THEN /\ resp' = [Json(500) EXCEPT !.error = "db error"]
                   /\ scan_runs' = Append(scan_runs, run)
                   /\ UNCHANGED signals
              ELSE /\ resp' = [Json(200) EXCEPT !.ok = TRUE, !.scan_run_id = run.id,
                                                !.inserted = Some(Len(rows))]
                   /\ scan_runs' = Append(scan_runs, run)
                   /\ signals' = signals \o rows
           /\ UNCHANGED <<page, arg, result, env, files, teach_labels>>

\* ingest-scan/route.ts POST, second implementation (lines 72-119)
IngestV2 ==
    \E h \in IngestHeaders, p \in Payloads, store \in StoreOutcomes :
        LET a == h[2]
            token == IF a.present THEN StripBearer(a) ELSE Undef
            run == [id |-> NextRunId, as_of |-> p.as_of,
                    source |-> Coalesce(p.source, "unknown")]
            rows == IngestRows(p.signals, NextRunId, Len(signals) + 1, StoreNow)
        IN /\ Idle
           /\ Len(scan_runs) < MaxRuns
           /\ req' = IngestRequest("v2", h, p, store)
           /\ IF ~env.supabase
              THEN \* getSupabase() throws, nothing catches it
                   /\ resp' = Unhandled
                   /\ UNCHANGED <<scan_runs, signals>>
              ELSE IF ~Truthy(env.INGEST_TOKEN) \/ token # env.INGEST_TOKEN
              THEN /\ resp' = [Json(401) EXCEPT !.error = "unauthorized"]
                   /\ UNCHANGED <<scan_runs, signals>>
              ELSE IF ~p.parses
              THEN \* req.json() rejects, nothing catches it
                   /\ resp' = Unhandled
                   /\ UNCHANGED <<scan_runs, signals>>
              ELSE IF ~Truthy(p.as_of) \/ ~p.is_array
              THEN /\ resp' = [Json(400) EXCEPT !.error = "bad payload"]
                   /\ UNCHANGED <<scan_runs, signals>>
              ELSE IF store = "scan_runs fails"
              THEN /\ resp' = [Json(500) EXCEPT !.error = "db error"]
                   /\ UNCHANGED <<scan_runs, signals>>
              ELSE IF store = "signals fails"
              THEN /\ resp' = [Json(500) EXCEPT !.error = "db error"]
                   /\ scan_runs' = Append(scan_runs, run)
                   /\ UNCHANGED signals
              ELSE /\ resp' = [Json(200) EXCEPT !.ok = TRUE, !.scan_run_id = run.id]
                   /\ scan_runs' = Append(scan_runs, run)
                   /\ signals' = signals \o rows
           /\ UNCHANGED <<page, arg, result, env, files, teach_labels>>

-----------------------------------------------------------------------------
(* GET teach/candidates *)

TeachHeaders == {NoHeader, Header("Bearer ", TeachSecret), Header("Bearer ", IngestSecret)}

\* mustAuth / requireTeachToken: the two are the same test
mustAuth(auth) ==
    LET token == IF auth.present THEN StripBearer(auth) ELSE Undef
    IN ~(~Truthy(env.TEACH_TOKEN) \/ token # env.TEACH_TOKEN)

FirstN(s, n) == SubSeq(s, 1, IF n < Len(s) THEN n ELSE Len(s))

\* .select("id, ticker, label, plan_type, rs_vs_spy, vol_z")
CandidateColumns(r) ==
    [id |-> r.id, ticker |-> r.ticker, label |-> r.label, plan_type |-> r.plan_type,
     rs_vs_spy |-> r.rs_vs_spy, vol_z |-> r.vol_z]

\* .from("scan_runs").order("as_of", {ascending: false}).limit(1): the latest
\* scan run, none when the table is empty
LatestRun == FirstN(SortBy("as_of desc", scan_runs), 1)

TeachRequest(op, a, b, store) ==
    [NoRequest EXCEPT !.op = op, !.auth = a, !.body = b, !.store = store]

\* A select without .order(): the store returns the matching rows in an order
\* of its choosing, here the order of insertion or its reverse.
ScanOrders == {"insertion", "reverse"}

Reverse(s) == [i \in 1..Len(s) |-> s[Len(s) + 1 - i]]

\* .from("signals").select(...).eq("scan_run_id", id).limit(300)
SelectOfRun(rows, id, order) ==
    LET matching == SelectSeq(rows, LAMBDA r : r.scan_run_id = id)
    IN FirstN(IF order = "reverse" THEN Reverse(matching) ELSE matching,
              CandidateQueryLimit)

\* part_003 GET, for one request: its Authorization header, what the store does
\* with its queries, and the order the store returns unordered rows in
CandidatesHandler(a, store, order) ==
    LET latest == LatestRun
        scanRun == latest[1]
        ofRun == SelectOfRun(signals, scanRun.id, order)
        picked == [i \in 1..Len(ofRun) |-> CandidateColumns(ofRun[i])]
        sorted == FirstN(SortBy("candidates", picked), MaxCandidates)
        tickers == {sorted[i].ticker : i \in 1..Len(sorted)}
        labeledSet == {teach_labels[i].ticker : i \in
                        {j \in 1..Len(teach_labels) :
                            /\ teach_labels[j].as_of = scanRun.as_of
                            /\ teach_labels[j].ticker \in tickers}}
    IN /\ Idle
       /\ req' = TeachRequest("candidates", a, NoBody, store)
       /\ resp' =
            IF ~env.supabase
            THEN Unhandled
            ELSE IF ~mustAuth(a)
            THEN [Json(401) EXCEPT !.error = "unauthorized"]
            ELSE IF store = "scan_runs fails" \/ latest = <<>>
            THEN [Json(500) EXCEPT !.error = "no scan_runs found"]
            ELSE IF store = "signals fails"
            THEN [Json(500) EXCEPT !.error = "db error"]
            ELSE [Json(200) EXCEPT
                    !.ok = TRUE, !.as_of = scanRun.as_of, !.scan_run_id = scanRun.id,
                    !.candidates =
                        [i \in 1..Len(sorted) |->
                            [c |-> sorted[i],
                             already_labeled_today |-> sorted[i].ticker \in labeledSet]]]
       /\ UNCHANGED <<arg, result, env, files, scan_runs, signals, teach_labels>>

\* a request to GET teach/candidates by some client
GetCandidates ==
    \E a \in TeachHeaders, store \in StoreOutcomes, order \in ScanOrders :
        CandidatesHandler(a, store, order) /\ UNCHANGED page

-----------------------------------------------------------------------------
(* POST teach/label *)

LabelIds == <<"lbl-1", "lbl-2", "lbl-3", "lbl-4", "lbl-5">>

\* bodies the writer accepts
AcceptedBodies ==
    { LabelBody(TRUE, "AAA", "conservative", JsNum(7), <<"volume_shelf", "trendline_break">>),
      LabelBody(TRUE, "AAA", "aggressive", JsStr("9"),
                <<"volume_shelf", "flag_or_pennant", "trendline_break">>),
      LabelBody(TRUE, "CCC", "yolo", JsNum(11), <<"volume_shelf">>),
      [LabelBody(TRUE, "CCC", "conservative", JsNum(1), <<>>)
          EXCEPT !.reasons_is_array = FALSE] }

\* bodies with a required field absent, null or empty
IncompleteBodies ==
    { LabelBody(TRUE, "CCC", "conservative", JsUndef, <<>>),
      LabelBody(TRUE, "CCC", "conservative", JsNull, <<"volume_shelf">>),
      LabelBody(TRUE, "AAA", "aggressive", JsStr(""), <<>>),
      LabelBody(TRUE, Undef, "", JsNum(7), <<>>),
      LabelBody(TRUE, "AAA", Null, JsUndef, <<>>),
      [LabelBody(TRUE, "AAA", "aggressive", JsNum(7), <<>>) EXCEPT !.idea_source = ""],
      [LabelBody(TRUE, "AAA", "aggressive", JsNull, <<>>) EXCEPT !.timeframe = Undef],
      [LabelBody(TRUE, "AAA", "aggressive", JsNum(7), <<>>) EXCEPT !.exit_intent = Null] }

LabelBodies == {NoBody} \cup AcceptedBodies \cup IncompleteBodies

\* a label by a client that sends along the scan_run_id its candidates
\* response named (body.scan_run_id, stored by the writer)
LinkedBodies ==
    IF LatestRun = <<>> THEN {}
    ELSE {[LabelBody(TRUE, "AAA", "conservative", JsNum(7), <<"volume_shelf">>)
              EXCEPT !.scan_run_id = LatestRun[1].id]}

\* a validation that leaves confidence out of the list
required_noConfidence == <<"ticker", "mode", "idea_source", "timeframe", "exit_intent">>

required == <<"ticker", "mode", "idea_source", "timeframe", "exit_intent", "confidence">>

\* body[k] === undefined || body[k] === null || body[k] === ""
FieldMissing(body, k) ==
    IF k = "confidence"
    THEN body.confidence[1] \in {"undef", "null"} \/ body.confidence = JsStr("")
    ELSE ~Truthy(body[k])

\* Number(body.confidence), as the number the row holds
NumberOfJs(v) ==
    LET n == ToNumber(v)
    IN IF n = JsNaN THEN NaN ELSE Num(n[2])

\* a writer that stores the reasons as given
EntryReasonsOf_unsliced(body) ==
    IF body.reasons_is_array THEN body.entry_reasons ELSE <<>>

\* Array.isArray(body.entry_reasons) ? body.entry_reasons.slice(0, 2) : []
EntryReasonsOf(body) ==
    IF body.reasons_is_array THEN FirstN(body.entry_reasons, MaxEntryReasons) ELSE <<>>

\* the row of the label write, with the columns the store fills in: id, and
\* as_of, which the write never sets and the table's default decides
LabelRow(body) ==
    [ticker |-> body.ticker, mode |-> body.mode, idea_source |-> body.idea_source,
     timeframe |-> body.timeframe,
     entry_reasons |-> EntryReasonsOf(body),
     exit_intent |-> body.exit_intent, confidence |-> NumberOfJs(body.confidence),
     notes |-> Coalesce(body.notes, Null),
     scan_run_id |-> Coalesce(body.scan_run_id, Null),
     signal_id |-> Coalesce(body.signal_id, Null),
     id |-> LabelIds[Len(teach_labels) + 1],
     as_of |-> IF env.labels_as_of = "now" THEN NowIso ELSE Null]

\* a write that keeps one record per ticker
InsertLabel_upsertByTicker(table, row) ==
    IF \E i \in 1..Len(table) : table[i].ticker = row.ticker
    THEN [i \in 1..Len(table) |-> IF table[i].ticker = row.ticker THEN row ELSE table[i]]
    ELSE Append(table, row)

\* supabase.from("teach_labels").insert(row)
InsertLabel(table, row) == Append(table, row)

\* part_004 POST, for one request: its Authorization header, its body, and
\* whether the store takes the insert
LabelHandler(a, b, up) ==
    LET missing == {i \in 1..Len(required) : FieldMissing(b, required[i])}
        firstMissing == CHOOSE i \in missing : \A j \in missing : i <= j
        row == LabelRow(b)
    IN /\ Idle
       /\ Len(teach_labels) < MaxLabels
       /\ req' = TeachRequest("label", a, b, IF up THEN "ok" ELSE "teach_labels fails")
       /\ IF ~env.supabase
          THEN /\ resp' = Unhandled
               /\ UNCHANGED teach_labels
          ELSE IF ~mustAuth(a)
          THEN /\ resp' = [Json(401) EXCEPT !.error = "unauthorized"]
               /\ UNCHANGED teach_labels
          ELSE IF ~b.parses
          THEN /\ resp' = Unhandled
               /\ UNCHANGED teach_labels
          ELSE IF missing # {}
          THEN /\ resp' = [Json(400) EXCEPT !.error = "missing " \o required[firstMissing]]
               /\ UNCHANGED teach_labels
          ELSE IF ~up
          THEN /\ resp' = [Json(500) EXCEPT !.error = "db error"]
               /\ UNCHANGED teach_labels
          ELSE /\ resp' = [Json(200) EXCEPT !.ok = TRUE, !.id = row.id]
               /\ teach_labels' = InsertLabel(teach_labels, row)
       /\ UNCHANGED <<arg, result, env, files, scan_runs, signals>>

\* a request to POST teach/label by some client
PostLabel ==
    \E a \in TeachHeaders, b \in LabelBodies \cup LinkedBodies, up \in BOOLEAN :
        LabelHandler(a, b, up) /\ UNCHANGED page

-----------------------------------------------------------------------------
(* The system *)

\* what the teach_labels table puts in as_of when a row is inserted without it
LabelAsOfDefaults == {"null", "now"}

\* the deployment: environment variables set or not, the default of a column
\* of the store's schema, snapshot files present or not
Init ==
    /\ env \in [supabase : BOOLEAN, INGEST_TOKEN : {Undef, IngestSecret},
                TEACH_TOKEN : {Undef, TeachSecret}, labels_as_of : LabelAsOfDefaults]
    /\ files \in [ready : ReadyFiles, early : EarlyFiles, watch : WatchFiles]
    /\ scan_runs = <<>>
    /\ signals = <<>>
    /\ teach_labels = <<>>
    /\ req = NoRequest
    /\ resp = NoResponse
    /\ arg = NoCall
    /\ result = NoCall
    /\ page = FreshPage

Next ==
    \/ GetSignalsA
    \/ GetSignalsB
    \/ IngestV1
    \/ IngestV2
    \/ GetCandidates
    \/ PostLabel
    \/ Deliver

Spec == Init /\ [][Next]_vars

-----------------------------------------------------------------------------
(* The label writer alone: POST teach/label requests against one deployment *)

LabelInit ==
    /\ env \in [supabase : BOOLEAN, INGEST_TOKEN : {Undef},
                TEACH_TOKEN : {Undef, TeachSecret}, labels_as_of : LabelAsOfDefaults]
    /\ files = [ready |-> MissingFile, early |-> MissingFile, watch |-> MissingFile]
    /\ scan_runs = <<>>
    /\ signals = <<>>
    /\ teach_labels = <<>>
    /\ req = NoRequest
    /\ resp = NoResponse
    /\ arg = NoCall
    /\ result = NoCall
    /\ page = FreshPage

LabelNext ==
    \/ PostLabel
    \/ Deliver

LabelSpec == LabelInit /\ [][LabelNext]_vars

-----------------------------------------------------------------------------
(* Vocabulary of the claims *)

\* the provenance tier a source value of the code denotes
TierOf(source) ==
    CASE source = "supabase" -> "primary"
      [] source = "fallback_after_db_error" -> "fallback_after_error"
      [] OTHER -> source

SignalsAnswered == req.op = "signals" /\ resp.kind = "json"

\* Math.min(Math.max(limit, 1), 1000) of the requested limit, NaN taken as the default
ClampedLimit(p) ==
    LET n == NumberOfLimitParam(p)
    IN IF n.nan THEN DefaultLimit
       ELSE IF n.v < 1 THEN 1
       ELSE IF n.v > MaxLimit THEN MaxLimit
       ELSE n.v

\* the snapshot signals of the files that can be read, in any order
ReadableSnapshotSignals ==
    LET sigs == (IF files.ready.exists THEN cardsFileToSignals(files.ready, "READY_CONFIRMED") ELSE <<>>)
                \o (IF files.early.exists THEN cardsFileToSignals(files.early, "EARLY") ELSE <<>>)
                \o (IF files.watch.exists THEN cardsFileToSignals(files.watch, "WATCH") ELSE <<>>)
    IN {sigs[i] : i \in 1..Len(sigs)}

Elems(s) == {s[i] : i \in 1..Len(s)}

-----------------------------------------------------------------------------
(* Claims *)

\* C1: every GET signals request is answered with a response tagged with its
\* tier: "fallback" when the store client could not be built, "fallback_after_error"
\* when the query returned an error object, "primary" when the query succeeded.
C1_EveryResponseTagged ==
    req.op = "signals" =>
        /\ resp.kind = "json"
        /\ TierOf(resp.source) \in {"primary", "fallback_after_error", "fallback"}
        /\ (~env.supabase => TierOf(resp.source) = "fallback")
        /\ (resp.primary = "error" => TierOf(resp.source) = "fallback_after_error")
        /\ (resp.primary = "ok" => TierOf(resp.source) = "primary")

\* C2: whichever snapshot files are missing, a GET signals that takes the
\* fallback path (the store is not configured, or its query failed) answers;
\* a missing file adds no signal, and no signal of a readable file is left out
\* when no label or limit parameter narrows the list.
C2_MissingFilesTolerated ==
    (req.op = "signals" /\ (~env.supabase \/ resp.primary = "error")) =>
        /\ resp.kind = "json"
        /\ Elems(resp.signals) \subseteq ReadableSnapshotSignals
        /\ (req.label = Null /\ req.limit = NoParam
                => Elems(resp.signals) = ReadableSnapshotSignals)

\* C3: when a label parameter is supplied, every signal of the response has
\* exactly that label, in every tier.
C3_LabelFilterInEveryTier ==
    (SignalsAnswered /\ Truthy(req.label)) =>
        \A i \in 1..Len(resp.signals) : resp.signals[i].label = req.label

\* C4: the limit GET signals applies is the requested one clamped to [1,1000]:
\* the store is queried with it, and the fallback list is cut to it.
C4_LimitClamped ==
    SignalsAnswered =>
        /\ (resp.queried =>
                /\ ~resp.queryLimit.nan
                /\ resp.queryLimit.v \in 1..MaxLimit
                /\ (req.limit.kind = "int" => resp.queryLimit.v = ClampedLimit(req.limit)))
        /\ (TierOf(resp.source) = "fallback" /\ ~Truthy(req.label) /\ req.limit.kind = "int"
                => Len(resp.signals) =
                     (IF ClampedLimit(req.limit) < Cardinality(ReadableSnapshotSignals)
                      THEN ClampedLimit(req.limit)
                      ELSE Cardinality(ReadableSnapshotSignals)))

\* C5: a GET signals response never holds more signals than the requested
\* limit (the default when none is given, at most 1000), whichever tier served it.
C5_AtMostLimitSignals ==
    (SignalsAnswered /\ req.limit.kind # "text" /\ NumberOfLimitParam(req.limit).v >= 1)
        => Len(resp.signals) <= ClampedLimit(req.limit)

\* C6: in the tiers served from the snapshots, signals are in descending order
\* of created_at if present, else as_of.
C6_FallbackSortedByTimeDesc ==
    (SignalsAnswered /\ TierOf(resp.source) \in {"fallback", "fallback_after_error"}) =>
        \A i \in 1..(Len(resp.signals) - 1) :
            StrRank(Coalesce(resp.signals[i].created_at, resp.signals[i].as_of))
                >= StrRank(Coalesce(resp.signals[i + 1].created_at, resp.signals[i + 1].as_of))

\* the request was turned away by the authorization gate
AnsweredUnauthorized ==
    /\ resp.kind = "json"
    /\ resp.status = 401
    /\ resp.error \in {"unauthorized", "Unauthorized ingest"}

\* the secret that guards the operation of the request
SecretOf(r) == IF r.op = "ingest" THEN env.INGEST_TOKEN ELSE env.TEACH_TOKEN

\* C7: with the secret of an operation unset, the operation is open: no
\* request is turned away as unauthorized, on ingest, candidates or label.
C7_OpenWhenSecretUnset ==
    (req.op \in {"ingest", "candidates", "label"} /\ ~Truthy(SecretOf(req)))
        => ~AnsweredUnauthorized

\* the request carries the secret in neither header
CarriesNoSecret(r) ==
    /\ r.xtoken # SecretOf(r) \/ r.op # "ingest"
    /\ ~r.auth.present \/ r.auth.cred # SecretOf(r)

\* C8: with a secret configured, a request that does not carry it is answered
\* 401, writes nothing to the store and is given no candidates.
C8_UnauthorizedRejected ==
    [][ (req'.op \in {"ingest", "candidates", "label"} /\ req.op = "none"
            /\ Truthy(SecretOf(req')) /\ CarriesNoSecret(req'))
        => /\ resp'.kind = "json"
           /\ resp'.status = 401
           /\ resp'.candidates = <<>>
           /\ UNCHANGED <<scan_runs, signals, teach_labels>> ]_vars

\* the request is authorized: no secret is configured, or a header carries it
IngestAuthorized ==
    \/ ~Truthy(env.INGEST_TOKEN)
    \/ req.xtoken = env.INGEST_TOKEN
    \/ req.auth.present /\ req.auth.cred = env.INGEST_TOKEN

\* C9: the status of an ingest response names the failure: 401 only for a
\* request that is not authorized, 400 only for a payload that does not parse
\* into either accepted shape, 500 only for a store that failed; an authorized
\* request to a deployment without a store is answered 500.
C9_StatusNamesFailure ==
    req.op = "ingest" =>
        /\ (resp.kind = "json" /\ resp.status = 401 => ~IngestAuthorized)
        /\ (resp.kind = "json" /\ resp.status = 400 =>
                \/ ~req.payload.parses
                \/ ~req.payload.is_array
                \/ ~req.payload.has_scan_runs
                \/ ~Truthy(req.payload.as_of))
        /\ (resp.kind = "json" /\ resp.status = 500 => ~env.supabase \/ req.store # "ok")
        /\ (IngestAuthorized /\ ~env.supabase => resp.kind = "json" /\ resp.status = 500)

\* C10: a successful ingest of N signals adds one scan run and N signal rows,
\* each row with the scan_run_id of that run, and answers with that id and N.
C10_IngestCreatesRunAndRows ==
    [][ (req'.op = "ingest" /\ req.op = "none" /\ resp'.kind = "json" /\ resp'.status = 200)
        => LET n == Len(req'.payload.signals)
           IN /\ Len(scan_runs') = Len(scan_runs) + 1
              /\ scan_runs'[Len(scan_runs')].id = resp'.scan_run_id
              /\ Len(signals') = Len(signals) + n
              /\ \A i \in (Len(signals) + 1)..Len(signals') :
                    signals'[i].scan_run_id = resp'.scan_run_id
              /\ resp'.inserted = Some(n) ]_vars

\* every snapshot file can be read
AllFilesReadable == files.ready.exists /\ files.early.exists /\ files.watch.exists

\* C11: with the store's URL/key not configured no endpoint crashes: GET
\* signals answers from the fallback tier (with readable snapshot files; a
\* missing one is the matter of C2), and ingest, candidates and label answer
\* with an error response, which is a 401 for a request that is not authorized.
C11_UnconfiguredStoreNoCrash ==
    (~env.supabase /\ req.op # "none") =>
        /\ (req.op = "signals" /\ AllFilesReadable
                => resp.kind = "json" /\ TierOf(resp.source) = "fallback")
        /\ (req.op \in {"ingest", "candidates", "label"}
                => /\ resp.kind = "json"
                   /\ resp.status >= 400
                   /\ (Truthy(SecretOf(req)) /\ CarriesNoSecret(req) => resp.status = 401))

-----------------------------------------------------------------------------
(* Every operation of the API against one configured deployment: the store  *)
(* is configured, the review secret is set, ingest is open                  *)

TeachInit ==
    /\ env \in [supabase : {TRUE}, INGEST_TOKEN : {Undef},
                TEACH_TOKEN : {TeachSecret}, labels_as_of : LabelAsOfDefaults]
    /\ files \in [ready : ReadyFiles \ {MissingFile}, early : EarlyFiles \ {MissingFile},
                  watch : WatchFiles \ {MissingFile}]
    /\ scan_runs = <<>>
    /\ signals = <<>>
    /\ teach_labels = <<>>
    /\ req = NoRequest
    /\ resp = NoResponse
    /\ arg = NoCall
    /\ result = NoCall
    /\ page = FreshPage

TeachSpec == TeachInit /\ [][Next]_vars

-----------------------------------------------------------------------------
(* The candidates route over a store that holds one ingested scan run *)

RankLabels == {"READY_CONFIRMED", "EARLY_BREAKOUT", "WATCH", "HOLD"}
RankRs == {NoNum, Some(-1), Some(2)}
RankVolZ == {NoNum, Some(2)}

\* the id the store gives the i-th signal row
RowId(i) == IF i <= Len(SignalIds) THEN SignalIds[i] ELSE "sig-" \o ToString(i)

\* the i-th row of the signals table, as the ingest of run "run-1" stored it
RankRow(i, label, rs, vz) ==
    [PayloadSignal("T" \o ToString(i), label, "run-1")
        EXCEPT !.id = RowId(i), !.created_at = TimeStamps[1],
               !.rs_vs_spy = rs, !.vol_z = vz]

\* runs of ShortRunLen signals of every label, relative strength and volume
ShortRuns ==
    { [i \in 1..ShortRunLen |-> RankRow(i, k[i][1], k[i][2], k[i][3])] :
        k \in [1..ShortRunLen -> RankLabels \X RankRs \X RankVolZ] }

\* runs of n WATCH signals followed by one signal of another kind
LongRuns(n) ==
    { [i \in 1..(n + 1) |->
         IF i <= n THEN RankRow(i, "WATCH", NoNum, NoNum)
         ELSE RankRow(i, k[1], k[2], k[3])] :
        k \in RankLabels \X RankRs \X RankVolZ }

RankInit ==
    /\ env = [supabase |-> TRUE, INGEST_TOKEN |-> Undef, TEACH_TOKEN |-> TeachSecret,
              labels_as_of |-> "null"]
    /\ files = [ready |-> MissingFile, early |-> MissingFile, watch |-> MissingFile]
    /\ scan_runs = <<[id |-> "run-1", as_of |-> TimeStamps[1], source |-> Undef]>>
    /\ signals \in ShortRuns \cup LongRuns(MaxCandidates + 1)
                           \cup LongRuns(CandidateQueryLimit)
    /\ teach_labels = <<>>
    /\ req = NoRequest
    /\ resp = NoResponse
    /\ arg = NoCall
    /\ result = NoCall
    /\ page = FreshPage

RankNext ==
    \/ GetCandidates
    \/ Deliver

RankSpec == RankInit /\ [][RankNext]_vars

-----------------------------------------------------------------------------
(* Claims on the label writer *)

\* the fields a label must carry, in the order they are named to the caller
RequiredLabelFields ==
    <<"ticker", "mode", "idea_source", "timeframe", "exit_intent", "confidence">>

\* the field is absent from the body, null, or the empty string
Lacks(body, k) ==
    IF k = "confidence"
    THEN body.confidence \in {JsUndef, JsNull, JsStr("")}
    ELSE body[k] \in {Undef, Null, ""}

LackedFields(body) ==
    {i \in 1..Len(RequiredLabelFields) : Lacks(body, RequiredLabelFields[i])}

FirstLacked(body) ==
    RequiredLabelFields[CHOOSE i \in LackedFields(body) : \A j \in LackedFields(body) : i <= j]

\* the label request r reaches the writer: the store client is built and the
\* request carries the configured review secret
ReachesWriter(r) ==
    /\ env.supabase
    /\ Truthy(env.TEACH_TOKEN)
    /\ r.auth.present /\ r.auth.prefix = "Bearer " /\ r.auth.cred = env.TEACH_TOKEN

\* a label request has just been handled
LabelHandled == req.op = "none" /\ req'.op = "label"

\* C12: a label write whose body lacks one of ticker, mode, idea_source,
\* timeframe, exit_intent, confidence (absent, null or empty) creates no label
\* record, and, when it reaches the writer, is answered with an error that
\* names the first field it lacks.
C12_IncompleteLabelRejected ==
    [][ (LabelHandled /\ req'.body.parses /\ LackedFields(req'.body) # {})
        => /\ teach_labels' = teach_labels
           /\ (ReachesWriter(req')
                => /\ resp'.kind = "json"
                   /\ resp'.status = 400
                   /\ resp'.error = "missing " \o FirstLacked(req'.body)) ]_vars

\* a write that lacks mode and confidence was answered "missing mode"
C12_Witness ==
    /\ req.op = "label"
    /\ ReachesWriter(req)
    /\ Cardinality(LackedFields(req.body)) = 2
    /\ resp.status = 400
    /\ resp.error = "missing mode"
    /\ Len(teach_labels) = 1

\* the label request r is one the writer accepts and the store takes
Accepted(r) ==
    /\ ReachesWriter(r)
    /\ r.body.parses
    /\ LackedFields(r.body) = {}
    /\ r.store = "ok"

\* C13: a label write with more than 2 entry_reasons is not rejected, and the
\* record it creates holds exactly the first 2 of them, in their order; 2 or
\* fewer are stored as given.
C13_EntryReasonsTruncated ==
    [][ (LabelHandled /\ req'.body.parses /\ req'.body.reasons_is_array)
        => LET given == req'.body.entry_reasons
               kept == IF Len(given) > 2 THEN <<given[1], given[2]>> ELSE given
           IN /\ (Accepted(req') => resp'.kind = "json" /\ resp'.status = 200)
              /\ (resp'.kind = "json" /\ resp'.status = 200
                    => /\ Len(teach_labels') = Len(teach_labels) + 1
                       /\ teach_labels'[Len(teach_labels')].entry_reasons = kept) ]_vars

\* a write with three reasons was accepted and stored with the first two
C13_Witness ==
    /\ req.op = "label"
    /\ Len(req.body.entry_reasons) = 3
    /\ resp.status = 200
    /\ teach_labels # <<>>
    /\ teach_labels[Len(teach_labels)].entry_reasons = <<"volume_shelf", "flag_or_pennant">>

\* C14: the label records are an append-only log: a successful label write
\* adds exactly one record, with an id of its own, after the existing ones,
\* and no operation changes or removes a record.
C14_LabelsAppendOnly ==
    [][ LET wrote == LabelHandled /\ resp'.kind = "json" /\ resp'.status = 200
        IN /\ Len(teach_labels') = Len(teach_labels) + (IF wrote THEN 1 ELSE 0)
           /\ SubSeq(teach_labels', 1, Len(teach_labels)) = teach_labels
           /\ \A i, j \in 1..Len(teach_labels') :
                 i # j => teach_labels'[i].id # teach_labels'[j].id ]_vars

\* two successful writes for one ticker left two records
C14_Witness ==
    /\ req.op = "label"
    /\ resp.status = 200
    /\ Len(teach_labels) = 2
    /\ teach_labels[1].ticker = teach_labels[2].ticker
    /\ teach_labels[1].id # teach_labels[2].id

\* C15: every label record the writer persists has mode "conservative" or
\* "aggressive" and a confidence that is a number in 1..10.
C15_LabelRecordSchema ==
    \A i \in 1..Len(teach_labels) :
        /\ teach_labels[i].mode \in {"conservative", "aggressive"}
        /\ ~teach_labels[i].confidence.nan
        /\ teach_labels[i].confidence.v \in 1..10

\* a candidates request has been answered with candidates
CandidatesAnswered == req.op = "candidates" /\ resp.kind = "json" /\ resp.status = 200

\* the label records for ticker T
LabelsOf(T) == {j \in 1..Len(teach_labels) : teach_labels[j].ticker = T}

\* C16: a candidate for whose ticker a label was written for the scan run of
\* the response (the most recent run) is reported already_labeled_today, and
\* a candidate for whose ticker no label was written is not.
C16_AlreadyLabeledReported ==
    CandidatesAnswered =>
        \A i \in 1..Len(resp.candidates) :
            LET T == resp.candidates[i].c.ticker
            IN /\ (\E j \in LabelsOf(T) : teach_labels[j].scan_run_id = resp.scan_run_id)
                    => resp.candidates[i].already_labeled_today
               /\ (LabelsOf(T) = {} => ~resp.candidates[i].already_labeled_today)

-----------------------------------------------------------------------------
(* Claims on the candidates ranking *)

\* the review priority of a label: 0 for READY_CONFIRMED, 1 for a label that
\* contains EARLY, 2 for WATCH, 3 for any other
ReviewRank(lbl) ==
    CASE lbl = "READY_CONFIRMED" -> 0
      [] lbl \in {"EARLY", "EARLY_BREAKOUT"} -> 1
      [] lbl = "WATCH" -> 2
      [] OTHER -> 3

\* a missing relative strength or volume z-score counts as 0
ValueOf(x) == IF x = NoNum THEN 0 ELSE x[1]

\* a sorts strictly before b by (rank ascending, rs_vs_spy descending, vol_z descending)
SortsBefore(a, b) ==
    \/ ReviewRank(a.label) < ReviewRank(b.label)
    \/ /\ ReviewRank(a.label) = ReviewRank(b.label)
       /\ \/ ValueOf(a.rs_vs_spy) > ValueOf(b.rs_vs_spy)
          \/ /\ ValueOf(a.rs_vs_spy) = ValueOf(b.rs_vs_spy)
             /\ ValueOf(a.vol_z) > ValueOf(b.vol_z)

\* the signals of the scan run the response names
SignalsOfRun == SelectSeq(signals, LAMBDA r : r.scan_run_id = resp.scan_run_id)

\* C17: the candidates returned are min(10, n) distinct signals of the most
\* recent scan run's n signals, in ranking order (rank ascending, rs_vs_spy
\* descending, vol_z descending), and no signal of the run that was left out
\* sorts strictly before a returned one.
C17_TopTenByReviewPriority ==
    CandidatesAnswered =>
        LET run == SignalsOfRun
            n == Len(run)
            got == resp.candidates
            ids == {got[i].c.id : i \in 1..Len(got)}
        IN /\ Len(got) = (IF n < 10 THEN n ELSE 10)
           /\ Cardinality(ids) = Len(got)
           /\ \A i \in 1..Len(got) : \E j \in 1..n : CandidateColumns(run[j]) = got[i].c
           /\ \A i, j \in 1..Len(got) : i < j => ~SortsBefore(got[j].c, got[i].c)
           /\ \A j \in 1..n : run[j].id \notin ids
                 => \A i \in 1..Len(got) : ~SortsBefore(run[j], got[i].c)


-----------------------------------------------------------------------------
(* The normaliser on its own: cardToSignal applied to one card *)

\* what plan.entry of a card holds: a breakout, a value zone, some other
\* type, or no type at all
PlanEntries ==
    {[entry_type |-> "breakout_confirmation", trigger |-> JsNum(101), zone |-> Absent],
     [entry_type |-> "value_zone", trigger |-> JsUndef,
      zone |-> Present([low |-> JsNum(95), high |-> JsNum(98)])],
     [entry_type |-> "market", trigger |-> JsUndef, zone |-> Absent],
     [entry_type |-> Undef, trigger |-> JsUndef, zone |-> Absent]}

\* cards with and without each pass-through key ([k: string]: any)
NormCards ==
    {[Card("AAA", labels, label, as_of, Undef) EXCEPT
         !.entry_type = pe.entry_type, !.trigger = pe.trigger, !.zone = pe.zone,
         !.plan_stop = plan_stop, !.plan_targets = plan_targets,
         !.plan_type = plan_type, !.entry = entry, !.stop = stop, !.targets = targets] :
        labels \in {<<>>, <<"READY_CONFIRMED">>},
        label \in {Undef, "HOT"},
        as_of \in {Undef, TimeStamps[1]},
        pe \in PlanEntries,
        plan_stop \in {JsNum(90), JsUndef, JsStr("90")},
        plan_targets \in {Absent, Present(<<JsNum(110)>>), Present(<<JsStr("110"), JsNum(130)>>)},
        plan_type \in {Undef, "swing"},
        entry \in {Absent, Present(EntryObj(Undef, JsUndef, Absent, Absent, JsNum(55)))},
        stop \in {Absent, Present([price |-> JsNum(80)])},
        targets \in {Absent, Present(<<[price |-> JsNum(120)]>>)}}

NormalizerInit ==
    /\ env = [supabase |-> FALSE, INGEST_TOKEN |-> Undef, TEACH_TOKEN |-> Undef,
              labels_as_of |-> "null"]
    /\ files = [ready |-> MissingFile, early |-> MissingFile, watch |-> MissingFile]
    /\ scan_runs = <<>>
    /\ signals = <<>>
    /\ teach_labels = <<>>
    /\ req = NoRequest
    /\ resp = NoResponse
    /\ arg \in {[fn |-> "cardToSignal", card |-> c, as_of |-> NowIso, defaultLabel |-> d] :
                   c \in NormCards, d \in {"WATCH", "EARLY"}}
    /\ result = NoCall
    /\ page = FreshPage

CallCardToSignal ==
    /\ arg.fn = "cardToSignal"
    /\ result = NoCall
    /\ result' = [fn |-> "cardToSignal",
                  value |-> cardToSignal(arg.card, arg.as_of, arg.defaultLabel)]
    /\ UNCHANGED <<page, arg, env, files, scan_runs, signals, teach_labels, req, resp>>

NormalizerNext == CallCardToSignal

NormalizerSpec == NormalizerInit /\ [][NormalizerNext]_vars

\* the computed fields the normaliser names explicitly and the model keeps
ExplicitFields == {"as_of", "ticker", "label", "plan_type", "entry", "stop", "targets",
                   "vol_z", "rs_vs_spy"}

\* C18: in the normaliser's output every explicitly computed field holds the
\* value the normaliser computed for it, whatever top-level keys the card
\* itself carries (label, entry, stop, targets, plan_type, as_of).
C18_ComputedFieldsTakePrecedence ==
    result.fn = "cardToSignal" =>
        \A k \in ExplicitFields :
            result.value[k] = ComputedFields(arg.card, arg.as_of, arg.defaultLabel)[k]

\* C19: a breakout_confirmation card yields plan_type "breakout_confirmation"
\* and an entry whose trigger is the source trigger; a value_zone card yields
\* an entry whose zone has the source bounds; any other card yields the entry
\* {price: card.price}.
C19_EntryVariantPreserved ==
    result.fn = "cardToSignal" =>
        LET c == arg.card
            s == result.value
        IN /\ c.entry_type = "breakout_confirmation" =>
                  s.plan_type = "breakout_confirmation" /\ s.entry.trigger = c.trigger
           /\ c.entry_type = "value_zone" =>
                  /\ s.entry.zone # Absent
                  /\ s.entry.zone[1].low = c.zone[1].low
                  /\ s.entry.zone[1].high = c.zone[1].high
           /\ c.entry_type \notin {"breakout_confirmation", "value_zone"} =>
                  s.entry = EntryObj(Undef, JsUndef, Absent, Absent, c.price)


-----------------------------------------------------------------------------
(* The dashboard's derived metrics (page.tsx): entryRef, tp1, stop, rr *)

\* a finite number as a count of halves
Halves(v) == IF v[1] = "half" THEN v[2] ELSE 2 * v[2]

\* the number that is h halves
FromHalves(h) == IF h % 2 = 0 THEN JsNum(h \div 2) ELSE JsHalf(h)

\* num(x, d = 0): Number(x) when finite, else 0
num(x) ==
    LET n == ToNumber(x)
    IN IF n = JsNaN THEN JsNum(0) ELSE n

\* a - b
Minus(a, b) == FromHalves(Halves(a) - Halves(b))

\* a quotient n/d of two counts of halves; 0 is 0/1
Quotient(n, d) == [n |-> n, d |-> d]
Zero == Quotient(0, 1)

rr_nonStrict(risk, reward) ==
    IF Halves(risk) >= 0 /\ Halves(reward) >= 0
    THEN Quotient(Halves(reward), Halves(risk))
    ELSE Zero

\* risk > 0 && reward > 0 ? reward / risk : 0
rr(risk, reward) ==
    IF Halves(risk) > 0 /\ Halves(reward) > 0
    THEN Quotient(Halves(reward), Halves(risk))
    ELSE Zero

\* a signal as the dashboard receives it, with the fields the metrics read:
\* entry.trigger, entry.price, entry.zone.low, targets[0].price, stop.price,
\* chosen_stop.stop_price
MetricSignal(trigger, price, zone_low, target, stop, chosen) ==
    [entry |-> EntryObj(Undef, trigger,
                        IF zone_low = JsUndef THEN Absent
                        ELSE Present([low |-> zone_low, high |-> JsUndef]),
                        Absent, price),
     targets |-> IF target = JsUndef THEN <<>> ELSE <<[price |-> target]>>,
     stop |-> StopObj(stop, JsUndef, JsUndef),
     probability |-> JsUndef, confidence |-> JsUndef, why |-> JsUndef,
     stop_ladder |-> JsUndef,
     chosen_stop |-> IF chosen = JsUndef THEN JsUndef ELSE JsObj([stop_price |-> chosen])]

\* one element of `enriched` (page.tsx:108-125): probability, confidence, why,
\* stop_ladder, chosen_stop, __entryRef, __tp1, __stop, __rr; __ev, which
\* nothing else reads, is left out
Enrich(s) ==
    LET ai == s.entry.ai
        AiValue(k) == IF ai = Absent THEN JsUndef ELSE ai[1][k]
        Prefer(k) == JsCoalesce(JsCoalesce(s[k], AiValue(k)), JsNull)
        chosen_stop == Prefer("chosen_stop")
        zone_low == IF s.entry.zone = Absent THEN JsUndef ELSE s.entry.zone[1].low
        target == IF s.targets = <<>> THEN JsUndef ELSE s.targets[1].price
        chosen_price == IF chosen_stop[1] = "obj" THEN chosen_stop[2].stop_price ELSE JsUndef
        entryRef == num(JsCoalesce(s.entry.trigger,
                                   JsCoalesce(s.entry.price, JsCoalesce(zone_low, JsNum(0)))))
        tp1 == num(JsCoalesce(target, JsNum(0)))
        stopPrice == num(JsCoalesce(s.stop.price, JsCoalesce(chosen_price, JsNum(0))))
        risk == Minus(entryRef, stopPrice)
        reward == Minus(tp1, entryRef)
    IN [probability |-> Prefer("probability"), confidence |-> Prefer("confidence"),
        why |-> Prefer("why"), stop_ladder |-> Prefer("stop_ladder"),
        chosen_stop |-> chosen_stop,
        entryRef |-> entryRef, tp1 |-> tp1, stop |-> stopPrice, rr |-> rr(risk, reward)]

\* signals around the boundaries: equal, lower and higher prices, absent,
\* null and non-numeric values, a zone midpoint, a negative stop
MetricSignals ==
    {MetricSignal(trigger, price, zone_low, target, stop, chosen) :
        trigger \in {JsUndef, JsNum(10), JsNum(12), JsStr("abc")},
        price \in {JsUndef, JsNum(10), JsHalf(21)},
        zone_low \in {JsUndef, JsNum(9)},
        target \in {JsUndef, JsNull, JsNum(10), JsNum(12), JsNum(15)},
        stop \in {JsUndef, JsNum(8), JsNum(10), JsNum(12), JsNum(0 - 3)},
        chosen \in {JsUndef, JsNum(9)}}

MetricsInit ==
    /\ env = [supabase |-> FALSE, INGEST_TOKEN |-> Undef, TEACH_TOKEN |-> Undef,
              labels_as_of |-> "null"]
    /\ files = [ready |-> MissingFile, early |-> MissingFile, watch |-> MissingFile]
    /\ scan_runs = <<>>
    /\ signals = <<>>
    /\ teach_labels = <<>>
    /\ req = NoRequest
    /\ resp = NoResponse
    /\ arg \in {[fn |-> "enrich", signal |-> s] : s \in MetricSignals}
    /\ result = NoCall
    /\ page = FreshPage

CallEnrich ==
    /\ arg.fn = "enrich"
    /\ result = NoCall
    /\ result' = [fn |-> "enrich", value |-> Enrich(arg.signal)]
    /\ UNCHANGED <<page, arg, env, files, scan_runs, signals, teach_labels, req, resp>>

MetricsNext == CallEnrich

MetricsSpec == MetricsInit /\ [][MetricsNext]_vars

\* C20: for every derived signal rr is 0 whenever entryRef <= stop or
\* tp1 <= entryRef (equal values included, with no division by zero), rr is
\* reward/risk when risk and reward are both strictly positive, and rr is
\* never negative.
C20_RiskRewardRatio ==
    result.fn = "enrich" =>
        LET e == Halves(result.value.entryRef)
            st == Halves(result.value.stop)
            tp == Halves(result.value.tp1)
            q == result.value.rr
        IN /\ q.d > 0
           /\ q.n >= 0
           /\ (e <= st \/ tp <= e) => q.n = 0
           /\ (e > st /\ tp > e) => q.n * (e - st) = (tp - e) * q.d /\ q.n > 0

\* a derived signal whose entry reference equals its stop, below its target
C20_Witness ==
    /\ result.fn = "enrich"
    /\ result.value.entryRef = result.value.stop
    /\ result.value.entryRef # JsNum(0)
    /\ Halves(result.value.tp1) > Halves(result.value.entryRef)
    /\ result.value.rr = Zero

-----------------------------------------------------------------------------
(* The entry-coercion pass on its own: normalizeEntry applied once and again *)

\* entry objects with and without trigger, price, zone and ai, numeric or not
EntryObjects ==
    {[EntryObj(Undef, trigger, zone, Absent, price) EXCEPT !.ai = ai] :
        trigger \in {JsUndef, JsNull, JsNum(101), JsStr("110"), JsStr("abc")},
        price \in {JsUndef, JsNull, JsNum(100), JsStr("90")},
        zone \in {Absent,
                  Present([low |-> JsNum(95), high |-> JsNum(98)]),
                  Present([low |-> JsNum(90), high |-> JsNum(110)]),
                  Present([low |-> JsStr("90"), high |-> JsUndef])},
        ai \in {Absent, Present(AiObj(JsNum(1), JsUndef, JsStr("why"), JsUndef, JsUndef))}}

\* what a stored or computed entry may be: absent, null, a bare number, an object
EntryValues == {JsUndef, JsNull, JsNum(0), JsNum(5)} \cup {JsObj(o) : o \in EntryObjects}

\* the pass of either implementation
normalizeEntry(impl, entry) ==
    IF impl = "A" THEN normalizeEntryA(entry) ELSE normalizeEntryB(entry)

EntryInit ==
    /\ env = [supabase |-> FALSE, INGEST_TOKEN |-> Undef, TEACH_TOKEN |-> Undef,
              labels_as_of |-> "null"]
    /\ files = [ready |-> MissingFile, early |-> MissingFile, watch |-> MissingFile]
    /\ scan_runs = <<>>
    /\ signals = <<>>
    /\ teach_labels = <<>>
    /\ req = NoRequest
    /\ resp = NoResponse
    /\ arg \in {[fn |-> "normalizeEntry", impl |-> impl, entry |-> e] :
                   impl \in {"A", "B"}, e \in EntryValues}
    /\ result = NoCall
    /\ page = FreshPage

\* the pass applied to the entry, then to its own output
CallNormalizeEntry ==
    /\ arg.fn = "normalizeEntry"
    /\ IF result = NoCall THEN TRUE ELSE result.passes < 2
    /\ result' =
         IF result = NoCall
         THEN [fn |-> "normalizeEntry", passes |-> 1, before |-> arg.entry,
               value |-> normalizeEntry(arg.impl, arg.entry)]
         ELSE [fn |-> "normalizeEntry", passes |-> 2, before |-> JsObj(result.value),
               value |-> normalizeEntry(arg.impl, JsObj(result.value))]
    /\ UNCHANGED <<page, arg, env, files, scan_runs, signals, teach_labels, req, resp>>

EntryNext == CallNormalizeEntry

EntrySpec == EntryInit /\ [][EntryNext]_vars

\* C21: the entry-coercion pass applied to its own output returns that output
\* unchanged, for every entry shape and both implementations.
C21_EntryCoercionIdempotent ==
    (result.fn = "normalizeEntry" /\ result.passes = 2) =>
        result.value = result.before[2]

\* a second pass over an entry the first pass did change
C21_Witness ==
    /\ result.fn = "normalizeEntry"
    /\ result.passes = 2
    /\ arg.entry[1] = "obj"
    /\ result.value # arg.entry[2]

-----------------------------------------------------------------------------
(* GET signals on its own, over stores whose rows carry entries of every kind *)

\* the i-th row of the signals table, as an ingest of run "run-1" stored it
StoredRow(i, ticker, entry, probability) ==
    [PayloadSignal(ticker, "WATCH", "run-1")
        EXCEPT !.id = RowId(i), !.created_at = TimeStamps[1],
               !.entry = entry, !.probability = probability]

\* the signals table: empty; rows whose entry has a trigger, a zone, nothing,
\* or a textual price; rows with and without entry.ai
StoredTables ==
    { <<>>,
      << StoredRow(1, "AAA", JsObj(EntryObj("breakout_confirmation", JsNum(101), Absent,
                                            Absent, JsUndef)), JsUndef),
         StoredRow(2, "BBB", JsObj(EntryObj("value_zone", JsUndef,
                                            Present([low |-> JsNum(95), high |-> JsNum(98)]),
                                            Absent, JsUndef)), JsUndef),
         StoredRow(3, "CCC", JsUndef, JsUndef) >>,
      << StoredRow(1, "AAA", JsObj(EntryObj("breakout_confirmation", JsStr("110"), Absent,
                                            Absent, JsStr("90"))), JsNum(0)),
         StoredRow(2, "BBB",
                   JsObj([EntryObj(Undef, JsUndef, Absent, Absent, JsNum(100)) EXCEPT
                             !.ai = Present(AiObj(JsNum(1), JsUndef, JsUndef, JsUndef, JsUndef))]),
                   JsNum(0)) >> }

SignalsInit ==
    /\ env \in [supabase : BOOLEAN, INGEST_TOKEN : {Undef}, TEACH_TOKEN : {Undef},
                labels_as_of : {"null"}]
    /\ files \in [ready : ReadyFiles, early : EarlyFiles, watch : WatchFiles]
    /\ scan_runs = <<[id |-> "run-1", as_of |-> TimeStamps[1], source |-> Undef]>>
    /\ signals \in StoredTables
    /\ teach_labels = <<>>
    /\ req = NoRequest
    /\ resp = NoResponse
    /\ arg = NoCall
    /\ result = NoCall
    /\ page = FreshPage

SignalsNext ==
    \/ GetSignalsA
    \/ GetSignalsB
    \/ Deliver

SignalsSpec == SignalsInit /\ [][SignalsNext]_vars

\* the handler of GET signals has run
SignalsHandled == req.op = "signals" /\ resp.kind # "none"

IsRead(e) == e \in Elems(SnapshotReads)

\* the primary attempt is over and did not give rows
PrimaryFailed(e) == e \in {"primary threw", "primary error", "primary unavailable"}

\* C22: within one GET signals request no snapshot file is read before the
\* primary attempt has ended in failure, and none is read at all when the
\* primary query succeeds.
C22_TiersInSequence ==
    SignalsHandled =>
        /\ \A i \in 1..Len(resp.events) :
               IsRead(resp.events[i]) => \E j \in 1..(i - 1) : PrimaryFailed(resp.events[j])
        /\ resp.primary = "ok" => \A i \in 1..Len(resp.events) : ~IsRead(resp.events[i])

\* a request whose query came back with an error object, then the three reads
C22_Witness ==
    /\ SignalsHandled
    /\ resp.events = <<"query", "primary error">> \o SnapshotReads
    /\ resp.source = "fallback_after_db_error"

\* the stored entry of a returned row names a price itself
ExplicitPrice(s) ==
    \E j \in 1..Len(signals) :
        /\ signals[j].id = s.id
        /\ signals[j].entry[1] = "obj"
        /\ signals[j].entry[2].price # JsUndef

\* C23: every signal GET signals returns whose entry names no price of its own
\* but has a trigger or a zone carries entry.price: the trigger, or the
\* midpoint of the zone; in every tier.
C23_EntryPriceSynthesized ==
    (SignalsHandled /\ resp.kind = "json") =>
        \A i \in 1..Len(resp.signals) :
            LET s == resp.signals[i]
                e == s.entry
            IN (~ExplicitPrice(s) /\ (e.trigger # JsUndef \/ e.zone # Absent)) =>
                   \/ e.trigger # JsUndef /\ e.price = e.trigger
                   \/ e.zone # Absent /\ e.price = Midpoint(e.zone[1].low, e.zone[1].high)

-----------------------------------------------------------------------------
(* The plan type of a normalised signal, the entry reference of a derived one *)

\* the plan types a Signal is declared to have
PlanTypes == {"breakout_confirmation", "value_zone", "unknown"}

\* C24: the plan_type of every signal the normaliser produces is
\* "breakout_confirmation", "value_zone" or "unknown", and it is "unknown" for
\* a card whose plan.entry.type is absent or is any other value.
C24_PlanTypeClosed ==
    result.fn = "cardToSignal" =>
        /\ result.value.plan_type \in PlanTypes
        /\ arg.card.entry_type \notin {"breakout_confirmation", "value_zone"} =>
               result.value.plan_type = "unknown"

\* a value num() would read as a number: present, and finite under Number()
IsNumeric(v) == v \notin {JsUndef, JsNull} /\ ToNumber(v) # JsNaN

\* the first numeric value of a list of values, else 0
RECURSIVE FirstNumeric(_)
FirstNumeric(vs) ==
    IF vs = <<>> THEN JsNum(0)
    ELSE IF IsNumeric(Head(vs)) THEN ToNumber(Head(vs))
    ELSE FirstNumeric(Tail(vs))

\* C25: entryRef is the first numeric value among entry.trigger, entry.price
\* and entry.zone.low, in that order, else 0; a trigger that is present but
\* not numeric does not stop a numeric price or zone.low from being used.
C25_EntryRefFirstNumeric ==
    result.fn = "enrich" =>
        LET e == arg.signal.entry
            zone_low == IF e.zone = Absent THEN JsUndef ELSE e.zone[1].low
        IN result.value.entryRef = FirstNumeric(<<e.trigger, e.price, zone_low>>)

-----------------------------------------------------------------------------
(* A stored row on its way to the dashboard: served by GET signals (primary
   tier), then derived by the client *)

\* the values a row holds at top level and under entry.ai, by key
TopValues ==
    [probability |-> JsNum(0), confidence |-> JsNum(70), why |-> JsStr("top"),
     chosen_stop |-> JsObj([stop_price |-> JsNum(8)]), stop_ladder |-> JsObj([rungs |-> 2])]
AiValues ==
    [probability |-> JsNum(1), confidence |-> JsNum(90), why |-> JsStr("ai"),
     chosen_stop |-> JsObj([stop_price |-> JsNum(9)]), stop_ladder |-> JsObj([rungs |-> 3])]

\* rows with each key present or not at top level and under entry.ai, and rows
\* without entry.ai
DeriveRows ==
    { [StoredRow(1, "AAA",
                 JsObj([EntryObj(Undef, JsUndef, Absent, Absent, JsNum(100)) EXCEPT
                           !.ai = IF hasAi
                                  THEN Present([k \in AiFields |->
                                                   IF k \in inAi THEN AiValues[k] ELSE JsUndef])
                                  ELSE Absent]),
                 JsUndef)
          EXCEPT !.probability = IF "probability" \in atTop THEN TopValues.probability ELSE JsUndef,
                 !.confidence = IF "confidence" \in atTop THEN TopValues.confidence ELSE JsUndef,
                 !.why = IF "why" \in atTop THEN TopValues.why ELSE JsUndef,
                 !.chosen_stop = IF "chosen_stop" \in atTop THEN TopValues.chosen_stop ELSE JsUndef,
                 !.stop_ladder = IF "stop_ladder" \in atTop THEN TopValues.stop_ladder ELSE JsUndef] :
        atTop \in SUBSET AiFields, inAi \in SUBSET AiFields, hasAi \in BOOLEAN }

DeriveInit ==
    /\ env = [supabase |-> TRUE, INGEST_TOKEN |-> Undef, TEACH_TOKEN |-> Undef,
              labels_as_of |-> "null"]
    /\ files = [ready |-> MissingFile, early |-> MissingFile, watch |-> MissingFile]
    /\ scan_runs = <<>>
    /\ signals = <<>>
    /\ teach_labels = <<>>
    /\ req = NoRequest
    /\ resp = NoResponse
    /\ arg \in {[fn |-> "derive", row |-> r] : r \in DeriveRows}
    /\ result = NoCall
    /\ page = FreshPage

\* the row as GET signals returns it from the primary tier
ServeRow ==
    /\ arg.fn = "derive"
    /\ result = NoCall
    /\ result' = [fn |-> "serve", value |-> NormalizeRowA(arg.row)]
    /\ UNCHANGED <<page, arg, env, files, scan_runs, signals, teach_labels, req, resp>>

\* the served signal as the dashboard derives it
DeriveRow ==
    /\ result.fn = "serve"
    /\ result' = [fn |-> "derive", value |-> Enrich(result.value)]
    /\ UNCHANGED <<page, arg, env, files, scan_runs, signals, teach_labels, req, resp>>

DeriveNext ==
    \/ ServeRow
    \/ DeriveRow

DeriveSpec == DeriveInit /\ [][DeriveNext]_vars

\* present: neither undefined nor null
NonNullish(v) == v \notin {JsUndef, JsNull}

\* the value of key k under entry.ai of a stored row
AiValueOf(row, k) ==
    IF row.entry[2].ai = Absent THEN JsUndef ELSE row.entry[2].ai[1][k]

\* C26: for each of probability, confidence, why, stop_ladder and chosen_stop
\* the derived signal shows the row's top-level value when it has one, else
\* the value under entry.ai, else null; through GET signals (primary tier)
\* and the client-side derivation.
C26_TopLevelPreferred ==
    result.fn = "derive" =>
        \A k \in AiFields :
            result.value[k] =
                IF NonNullish(arg.row[k]) THEN arg.row[k]
                ELSE IF NonNullish(AiValueOf(arg.row, k)) THEN AiValueOf(arg.row, k)
                ELSE JsNull

-----------------------------------------------------------------------------
(* Ingest and the store *)

\* the ingest handler runs in this step and answers with an error status
IngestAnswersError ==
    /\ req.op = "none"
    /\ req'.op = "ingest"
    /\ resp'.kind = "json"
    /\ resp'.status \in {400, 401, 500}

\* C27: whenever the ingest endpoint answers with an error (400, 401 or 500)
\* no scan run created by that request remains in the store: the scan_runs
\* table is as it was before the request, so no run is left without signals.
C27_IngestAllOrNothing ==
    [][IngestAnswersError => scan_runs' = scan_runs]_vars

-----------------------------------------------------------------------------
(* The review page (teach/page.tsx) in one browser, against the review API *)

\* requests the page may have under way at once
MaxCalls == 2

\* what the reviewer pastes into the token field: nothing, or the secret with
\* blanks around it
PastedSecret == " t0ken "
PageTokens == {"", PastedSecret}

\* tok.trim()
Trim(str) == IF str = PastedSecret THEN TeachSecret ELSE str

\* candidates[idx] ?? null: is there a candidate under the cursor
HasCandidate == page.idx >= 0 /\ page.idx < Len(page.candidates)
CurrentCandidate == page.candidates[page.idx + 1]

\* c.k ?? null, for a key the candidate may not have
CandidateProp(cand, k) ==
    IF k \in DOMAIN cand.c THEN Coalesce(cand.c[k], Null) ELSE Null

\* the body saveLabel builds (lines 101-112); the form keeps the values it is
\* mounted with
SaveBody(cand) ==
    [LabelBody(TRUE, cand.c.ticker, "conservative", JsNum(7), <<>>) EXCEPT
        !.exit_intent = "before_last_high",
        !.scan_run_id = CandidateProp(cand, "scan_run_id"),
        !.signal_id = CandidateProp(cand, "signal_id")]

\* a request under way: the token it carries, and what the function that sent
\* it has in its closure (idx, candidates.length); origin says whether
\* loadCandidates was called from the Load button or from saveLabel
PageCall(kind, origin, t, body) ==
    [kind |-> kind, origin |-> origin, t |-> t, body |-> body,
     idx |-> page.idx, len |-> Len(page.candidates),
     state |-> "sent", ok |-> FALSE, as_of |-> Null, candidates |-> <<>>]

RemoveAt(s, i) == SubSeq(s, 1, i - 1) \o SubSeq(s, i + 1, Len(s))

\* res.ok
ResOk(r) == r.kind = "json" /\ r.status = 200

\* the reviewer types or pastes into the token field (setToken)
TypeToken ==
    \E t \in PageTokens :
        /\ t # page.token
        /\ page' = [page EXCEPT !.token = t]
        /\ UNCHANGED <<arg, result, env, files, scan_runs, signals, teach_labels, req, resp>>

\* the Load button: loadCandidates(token) up to its fetch (lines 73-79)
ClickLoad ==
    /\ Len(page.calls) < MaxCalls
    /\ page' = IF Trim(page.token) = "" THEN page
               ELSE [page EXCEPT !.calls = Append(@, PageCall("load", "button",
                                                               Trim(page.token), NoBody))]
    /\ UNCHANGED <<arg, result, env, files, scan_runs, signals, teach_labels, req, resp>>

\* the server answers a load of the page
ServeLoad ==
    \E i \in 1..Len(page.calls), store \in StoreOutcomes, order \in ScanOrders :
        /\ page.calls[i].kind = "load"
        /\ page.calls[i].state = "sent"
        /\ CandidatesHandler(Header("Bearer ", page.calls[i].t), store, order)
        /\ page' = [page EXCEPT !.calls[i].state = "answered",
                                !.calls[i].ok = ResOk(resp'),
                                !.calls[i].as_of = resp'.as_of,
                                !.calls[i].candidates = resp'.candidates]

\* loadCandidates after its fetch (lines 81-91), and the rest of saveLabel
\* when it was saveLabel that called it (lines 130-135)
LoadResumes ==
    \E i \in 1..Len(page.calls) :
        LET call == page.calls[i]
            saving == IF call.origin = "save" THEN FALSE ELSE page.saving
        IN /\ call.kind = "load"
           /\ call.state = "answered"
           /\ page' = IF ~call.ok
                      THEN [page EXCEPT !.calls = RemoveAt(@, i), !.saving = saving]
                      ELSE [page EXCEPT !.calls = RemoveAt(@, i), !.saving = saving,
                                        !.as_of = Coalesce(call.as_of, Null),
                                        !.candidates = call.candidates,
                                        !.idx = 0, !.loaded = TRUE]
           /\ UNCHANGED <<arg, result, env, files, scan_runs, signals, teach_labels, req, resp>>

\* saveLabel up to its fetch (lines 94-121)
StartSave ==
    IF ~HasCandidate \/ Trim(page.token) = ""
    THEN page' = page
    ELSE /\ Len(page.calls) < MaxCalls
         /\ page' = [page EXCEPT !.saving = TRUE,
                                 !.calls = Append(@, PageCall("save", "button", Trim(page.token),
                                                              SaveBody(CurrentCandidate)))]

\* the Save button, rendered with a candidate under the cursor and disabled
\* while saving (lines 222, 373-379)
ClickSave ==
    /\ page.loaded
    /\ HasCandidate
    /\ ~page.saving
    /\ StartSave
    /\ UNCHANGED <<arg, result, env, files, scan_runs, signals, teach_labels, req, resp>>

\* the Enter key (line 147)
KeyEnter ==
    /\ StartSave
    /\ UNCHANGED <<arg, result, env, files, scan_runs, signals, teach_labels, req, resp>>

\* the server answers a save of the page
ServeSave ==
    \E i \in 1..Len(page.calls), up \in BOOLEAN :
        /\ page.calls[i].kind = "save"
        /\ page.calls[i].state = "sent"
        /\ LabelHandler(Header("Bearer ", page.calls[i].t), page.calls[i].body, up)
        /\ page' = [page EXCEPT !.calls[i].state = "answered", !.calls[i].ok = ResOk(resp')]

\* saveLabel after its fetch (lines 123-135): on success the cursor moves on,
\* or the list is loaded again when the cursor was on the last candidate
SaveResumes ==
    \E i \in 1..Len(page.calls) :
        LET call == page.calls[i]
        IN /\ call.kind = "save"
           /\ call.state = "answered"
           /\ page' = IF ~call.ok
                      THEN [page EXCEPT !.calls = RemoveAt(@, i), !.saving = FALSE]
                      ELSE IF call.idx < call.len - 1
                      THEN [page EXCEPT !.calls = RemoveAt(@, i), !.saving = FALSE,
                                        !.idx = @ + 1]
                      ELSE [page EXCEPT !.calls[i] = PageCall("load", "save", call.t, NoBody)]
           /\ UNCHANGED <<arg, result, env, files, scan_runs, signals, teach_labels, req, resp>>

\* setIdx((x) => Math.max(x - 1, 0))
PrevIdx(x) == IF x - 1 > 0 THEN x - 1 ELSE 0

\* setIdx((x) => Math.min(x + 1, candidates.length - 1))
NextIdx(x, length) == IF x + 1 < length - 1 THEN x + 1 ELSE length - 1

\* the Prev and Next buttons, rendered with a candidate under the cursor
ClickPrev ==
    /\ page.loaded
    /\ HasCandidate
    /\ page' = [page EXCEPT !.idx = PrevIdx(@)]
    /\ UNCHANGED <<arg, result, env, files, scan_runs, signals, teach_labels, req, resp>>

ClickNext ==
    /\ page.loaded
    /\ HasCandidate
    /\ page' = [page EXCEPT !.idx = NextIdx(@, Len(page.candidates))]
    /\ UNCHANGED <<arg, result, env, files, scan_runs, signals, teach_labels, req, resp>>

\* the arrow keys (lines 148-149), listened to on the window
KeyArrowLeft ==
    /\ page' = [page EXCEPT !.idx = PrevIdx(@)]
    /\ UNCHANGED <<arg, result, env, files, scan_runs, signals, teach_labels, req, resp>>

KeyArrowRight ==
    /\ page' = [page EXCEPT !.idx = NextIdx(@, Len(page.candidates))]
    /\ UNCHANGED <<arg, result, env, files, scan_runs, signals, teach_labels, req, resp>>

\* a configured deployment whose latest scan run has two signals, or none
PageInit ==
    /\ env = [supabase |-> TRUE, INGEST_TOKEN |-> Undef, TEACH_TOKEN |-> TeachSecret,
              labels_as_of |-> "null"]
    /\ files = [ready |-> MissingFile, early |-> MissingFile, watch |-> MissingFile]
    /\ scan_runs = <<[id |-> "run-1", as_of |-> TimeStamps[1], source |-> Undef]>>
    /\ signals \in { <<>>,
                     << RankRow(1, "READY_CONFIRMED", NoNum, NoNum),
                        RankRow(2, "WATCH", NoNum, NoNum) >> }
    /\ teach_labels = <<>>
    /\ req = NoRequest
    /\ resp = NoResponse
    /\ arg = NoCall
    /\ result = NoCall
    /\ page = FreshPage

PageNext ==
    \/ TypeToken
    \/ ClickLoad
    \/ ServeLoad
    \/ LoadResumes
    \/ ClickSave
    \/ KeyEnter
    \/ ServeSave
    \/ SaveResumes
    \/ ClickPrev
    \/ ClickNext
    \/ KeyArrowLeft
    \/ KeyArrowRight
    \/ Deliver

PageSpec == PageInit /\ [][PageNext]_vars

\* C28: a label saved from the review page is stored with the scan_run_id of
\* the scan run its candidate list came from and with the signal_id of the
\* candidate's signal row, not with null.
C28_LabelLinkedToSignal ==
    \A i \in 1..Len(teach_labels) :
        LET row == teach_labels[i]
        IN /\ row.scan_run_id = LatestRun[1].id
           /\ \E j \in 1..Len(signals) :
                  /\ signals[j].ticker = row.ticker
                  /\ signals[j].scan_run_id = row.scan_run_id
                  /\ signals[j].id = row.signal_id

\* the saves the page has sent and the server has not answered yet
SavesSent(p) == {i \in 1..Len(p.calls) : p.calls[i].kind = "save" /\ p.calls[i].state = "sent"}

\* C29: while a save is under way (saving = true) the page issues no second
\* label write, whether by the Save button or by the Enter key.
C29_OneSaveAtATime ==
    [][page.saving => Cardinality(SavesSent(page')) <= Cardinality(SavesSent(page))]_vars

\* C30: the cursor stays in range: 0 <= idx always, idx <= candidates.length - 1
\* while the list is non-empty, and idx = 0 while it is empty.
C30_CursorInRange ==
    /\ page.idx >= 0
    /\ page.candidates # <<>> => page.idx <= Len(page.candidates) - 1
    /\ page.candidates = <<>> => page.idx = 0

=============================================================================
